---- MODULE Spec2Model ----
(***************************************************************************)
(* A model of codex: the modifier-set engine (src/src/shared.rs), the      *)
(* query API (src/src/lib.rs) and the notation compiler (src/build.rs).    *)
(*                                                                         *)
(* Strings are sequences of Unicode code points (naturals); Option<T> is   *)
(* a sequence of length 0 (None) or 1 (Some).                              *)
(***************************************************************************)
EXTENDS Integers, Sequences, FiniteSets, TLC

VARIABLES
    call,           \* the query-API call last made, with its abstract inputs
    ret,            \* what that call returned
    text,           \* process: the lines of the file read so far
    line_nr,        \* process: the number of the line last read
    deprecations,   \* process: the pending `@deprecated` annotations
    stack,          \* parse: one frame (name, deprecation, defs) per active call
    cur,            \* parse: the symbol whose variants are being collected, if any
    outcome,        \* process: running, or how the compilation ended
    log_new,        \* history: the argument and result of every Module::new
    log_push,       \* history: the symbol bindings in the order parse pushed them
    read,           \* history: the texts of the corpus files processed before this one
    buf,            \* main: the tables written to the buffer so far
    out             \* main: the content of out.rs, once written

queryVars == <<call, ret>>
buildVars == <<text, line_nr, deprecations, stack, cur, outcome, log_new, log_push,
               read, buf, out>>
vars == <<call, ret, text, line_nr, deprecations, stack, cur, outcome, log_new, log_push,
          read, buf, out>>

-----------------------------------------------------------------------------
(* Characters and strings *)

Lower == <<"a", "b", "c", "d", "e", "f", "g", "h", "i", "j", "k", "l", "m",
           "n", "o", "p", "q", "r", "s", "t", "u", "v", "w", "x", "y", "z">>
Upper == <<"A", "B", "C", "D", "E", "F", "G", "H", "I", "J", "K", "L", "M",
           "N", "O", "P", "Q", "R", "S", "T", "U", "V", "W", "X", "Y", "Z">>
Digit == <<"0", "1", "2", "3", "4", "5", "6", "7", "8", "9">>
Punct == <<" ", "(", ")", "+", "-", ".", "/", ":", "?", "@", "\\", "{", "}", "\t",
           "=", "*">>
PunctCode == <<32, 40, 41, 43, 45, 46, 47, 58, 63, 64, 92, 123, 125, 9, 61, 42>>

\* The code point of a character.
Ord == [c \in {Lower[i] : i \in 1..26} \cup {Upper[i] : i \in 1..26}
               \cup {Digit[i] : i \in 1..10} \cup {Punct[i] : i \in 1..Len(Punct)} |->
          IF \E i \in 1..26 : Lower[i] = c THEN 96 + (CHOOSE i \in 1..26 : Lower[i] = c)
          ELSE IF \E i \in 1..26 : Upper[i] = c THEN 64 + (CHOOSE i \in 1..26 : Upper[i] = c)
          ELSE IF \E i \in 1..10 : Digit[i] = c THEN 47 + (CHOOSE i \in 1..10 : Digit[i] = c)
          ELSE PunctCode[CHOOSE i \in 1..Len(Punct) : Punct[i] = c]]

\* The string whose characters are listed in cs.
S(cs) == [i \in 1..Len(cs) |-> Ord[cs[i]]]

None == <<>>
Some(v) == <<v>>

RECURSIVE IndexFrom(_, _, _)
\* The least index >= i of s holding the character c, or 0.
IndexFrom(s, c, i) ==
    IF i > Len(s) THEN 0
    ELSE IF s[i] = c THEN i
    ELSE IndexFrom(s, c, i + 1)

RECURSIVE Split(_, _)
\* str::split(c): the pieces of s between the occurrences of c; never empty.
Split(s, c) ==
    LET i == IndexFrom(s, c, 1) IN
    IF i = 0 THEN <<s>>
    ELSE <<SubSeq(s, 1, i - 1)>> \o Split(SubSeq(s, i + 1, Len(s)), c)

ends_with(s, c) == Len(s) > 0 /\ s[Len(s)] = c

starts_with(s, p) == Len(s) >= Len(p) /\ SubSeq(s, 1, Len(p)) = p

\* str::strip_prefix / strip_suffix: None when s does not start / end with p.
strip_prefix(s, p) ==
    IF starts_with(s, p) THEN Some(SubSeq(s, Len(p) + 1, Len(s))) ELSE None

strip_suffix(s, p) ==
    IF Len(s) >= Len(p) /\ SubSeq(s, Len(s) - Len(p) + 1, Len(s)) = p
    THEN Some(SubSeq(s, 1, Len(s) - Len(p))) ELSE None

RECURSIVE FindFrom(_, _, _)
\* The least index >= i of s where the string p starts, or 0.
FindFrom(s, p, i) ==
    IF i + Len(p) - 1 > Len(s) THEN 0
    ELSE IF SubSeq(s, i, i + Len(p) - 1) = p THEN i
    ELSE FindFrom(s, p, i + 1)

\* str::split_once(p): None, or Some(<<before, after>>) around the first p.
split_once(s, p) ==
    LET i == FindFrom(s, p, 1) IN
    IF i = 0 THEN None
    ELSE Some(<<SubSeq(s, 1, i - 1), SubSeq(s, i + Len(p), Len(s))>>)

\* char::is_whitespace: the code points with the Unicode property White_Space.
is_whitespace(c) ==
    c \in (9..13) \cup {32, 133, 160, 5760} \cup (8192..8202)
         \cup {8232, 8233, 8239, 8287, 12288}

RECURSIVE trim_start(_)
trim_start(s) ==
    IF Len(s) > 0 /\ is_whitespace(s[1]) THEN trim_start(SubSeq(s, 2, Len(s))) ELSE s

RECURSIVE trim_end(_)
trim_end(s) ==
    IF Len(s) > 0 /\ is_whitespace(s[Len(s)]) THEN trim_end(SubSeq(s, 1, Len(s) - 1)) ELSE s

trim(s) == trim_end(trim_start(s))

is_ascii_alphabetic(c) == c \in (65..90) \cup (97..122)

\* Lexicographic order of strings by code point (the byte order of UTF-8).
RECURSIVE StrLess(_, _)
StrLess(a, b) ==
    IF Len(b) = 0 THEN FALSE
    ELSE IF Len(a) = 0 THEN TRUE
    ELSE IF a[1] # b[1] THEN a[1] < b[1]
    ELSE StrLess(SubSeq(a, 2, Len(a)), SubSeq(b, 2, Len(b)))

\* Result<T, String>
Ok(v) == [ok |-> TRUE, val |-> v]
Err(e) == [ok |-> FALSE, err |-> e]

-----------------------------------------------------------------------------
(* Modifier (shared.rs) *)

Modifier_as_str(m) == m

Modifier_name(m) == IF ends_with(m, Ord["?"]) THEN SubSeq(m, 1, Len(m) - 1) ELSE m

Modifier_is_optional(m) == ends_with(m, Ord["?"])

\* A panic of the program, with its message.
Panic(message) == [kind |-> "panic", message |-> message]

(* ModifierSet (shared.rs): the dotted string itself *)

\* The condition of the debug_assert! of from_raw_dotted: s has no empty modifier,
\* that is, contains neither `..` nor `.?.` (`.` is 46, `?` is 63).
no_empty_modifier(s) ==
    /\ \A i \in 1..(Len(s) - 1) : ~(s[i] = 46 /\ s[i + 1] = 46)
    /\ \A i \in 1..(Len(s) - 2) : ~(s[i] = 46 /\ s[i + 1] = 63 /\ s[i + 2] = 46)

\* ModifierSet::from_raw_dotted.  The assertion is compiled in only when the
\* build has debug assertions on, which debug_assertions says; it then panics on
\* a string with an empty modifier.
from_raw_dotted(s, debug_assertions) ==
    IF debug_assertions /\ ~no_empty_modifier(s)
    THEN Panic("ModifierSet::from_dotted called with string containing empty modifier")
    ELSE s

is_empty(ms) == Len(ms) = 0

\* The modifiers of ms, in the order of the string.
iter(ms) == IF Len(ms) = 0 THEN <<>> ELSE Split(ms, Ord["."])

\* Mutant of contains: looks at the front of the string only.
contains_front(ms, m) == starts_with(ms, m)

contains(ms, m) ==
    LET ms_iter == iter(ms) IN
    \E i \in 1..Len(ms_iter) : Modifier_name(ms_iter[i]) = m

\* Mutant of is_subset: compares the modifiers with their `?` marker left on.
is_subset_marked(ms, other) ==
    LET ms_iter == iter(ms) IN
    \A i \in 1..Len(ms_iter) : contains(other, Modifier_as_str(ms_iter[i]))

is_subset(ms, other) ==
    LET ms_iter == iter(ms) IN
    \A i \in 1..Len(ms_iter) : contains(other, Modifier_name(ms_iter[i]))

\* Mutant of required_is_subset: optional modifiers are required too.
required_is_subset_all(ms, other) ==
    LET ms_iter == iter(ms) IN
    \A i \in 1..Len(ms_iter) : contains(other, Modifier_name(ms_iter[i]))

required_is_subset(ms, other) ==
    LET ms_iter == iter(ms) IN
    \A i \in 1..Len(ms_iter) :
        ~Modifier_is_optional(ms_iter[i])
            => contains(other, Modifier_as_str(ms_iter[i]))

\* (matching, Reverse(total)) of one candidate set against the query.
Score(self, set) ==
    LET set_iter == iter(set) IN
    [matching |-> Cardinality({i \in 1..Len(set_iter) :
                                  contains(self, Modifier_name(set_iter[i]))}),
     total    |-> Len(set_iter)]

\* Mutant of ScoreGreater: a >= b, so that the last of the best matches wins.
ScoreGreaterOrEqual(a, b) ==
    \/ a.matching > b.matching
    \/ a.matching = b.matching /\ a.total <= b.total

\* a > b on (usize, Reverse<usize>) tuples.
ScoreGreater(a, b) ==
    \/ a.matching > b.matching
    \/ a.matching = b.matching /\ a.total < b.total

RECURSIVE BestMatchLoop(_, _, _, _, _)
\* The for loop of best_match_in from candidate i on.
BestMatchLoop(self, variants, i, best, best_score) ==
    IF i > Len(variants) THEN best
    ELSE
        LET set == variants[i][1] IN
        IF ~(required_is_subset(set, self) /\ is_subset(self, set))
        THEN BestMatchLoop(self, variants, i + 1, best, best_score)
        ELSE
            LET score == Score(self, set) IN
            IF best_score = None \/ ScoreGreater(score, best_score[1])
            THEN BestMatchLoop(self, variants, i + 1,
                               Some(variants[i][2]), Some(score))
            ELSE BestMatchLoop(self, variants, i + 1, best, best_score)

best_match_in(self, variants) ==
    BestMatchLoop(self, variants, 1, None, None)

-----------------------------------------------------------------------------
(* Symbol (lib.rs) *)

\* Symbol::Single(c) and Symbol::Multi(list), list of <<modifiers, value, deprecation>>.
Single(c) == [kind |-> "Single", value |-> c]
Multi(list) == [kind |-> "Multi", list |-> list]

\* Mutant of Symbol_get: a Single symbol answers any modifier set.
Symbol_get_any(sym, modifs) ==
    IF sym.kind = "Single"
    THEN Some(<<sym.value, None>>)
    ELSE best_match_in(modifs,
            [i \in 1..Len(sym.list) |->
                <<sym.list[i][1], <<sym.list[i][2], sym.list[i][3]>>>>])

Symbol_get(sym, modifs) ==
    IF sym.kind = "Single"
    THEN IF is_empty(modifs) THEN Some(<<sym.value, None>>) ELSE None
    ELSE best_match_in(modifs,
            [i \in 1..Len(sym.list) |->
                <<sym.list[i][1], <<sym.list[i][2], sym.list[i][3]>>>>])

-----------------------------------------------------------------------------
(* The notation compiler (build.rs): lines and declarations *)

\* enum Line
Line_Blank == [kind |-> "Blank"]
Line_Deprecated(modifier, message) ==
    [kind |-> "Deprecated", modifier |-> modifier, message |-> message]
Line_ModuleStart(name) == [kind |-> "ModuleStart", name |-> name]
Line_ModuleEnd == [kind |-> "ModuleEnd"]
Line_Symbol(name, value) == [kind |-> "Symbol", name |-> name, value |-> value]
Line_Variant(modifiers, value) ==
    [kind |-> "Variant", modifiers |-> modifiers, value |-> value]

\* enum Declaration
Declaration_ModuleStart(name, deprecation) ==
    [kind |-> "ModuleStart", name |-> name, deprecation |-> deprecation]
Declaration_ModuleEnd == [kind |-> "ModuleEnd"]
Declaration_Symbol(name, value, deps) ==
    [kind |-> "Symbol", name |-> name, value |-> value, deprecations |-> deps]
Declaration_Variant(modifiers, value) ==
    [kind |-> "Variant", modifiers |-> modifiers, value |-> value]

\* Mutant of validate_ident: any non-empty string passes.
validate_ident_nonempty(string) ==
    IF Len(string) > 0 THEN Ok(<<>>) ELSE Err("invalid identifier")

validate_ident(string) ==
    IF Len(string) > 0 /\ \A i \in 1..Len(string) : is_ascii_alphabetic(string[i])
    THEN Ok(<<>>)
    ELSE Err("invalid identifier")

\* The radix of a limb: machine words wider than 31 bits are held as sequences
\* of 16-bit limbs, the least significant first.
Limb == 65536

\* char::to_digit(16), or -1.
HexDigit(c) ==
    IF c \in 48..57 THEN c - 48
    ELSE IF c \in 97..102 THEN c - 87
    ELSE IF c \in 65..70 THEN c - 55
    ELSE -1

RECURSIVE HexDigits(_, _, _)
\* The u32 value of the hexadecimal digits of s from i on, added to acc; None on
\* a character that is no digit and on a value beyond u32.  A u32 is held as its
\* two 16-bit limbs <<low, high>>.
HexDigits(s, i, acc) ==
    IF i > Len(s) THEN Some(acc)
    ELSE IF HexDigit(s[i]) < 0 THEN None
    ELSE LET low  == acc[1] * 16 + HexDigit(s[i])
             high == acc[2] * 16 + (low \div Limb)
         IN IF high >= Limb THEN None
            ELSE HexDigits(s, i + 1, <<low % Limb, high>>)

\* u32::from_str_radix(code, 16).ok(), the value as <<low, high>> limbs
from_str_radix_16(code) ==
    LET digits == IF Len(code) > 0 /\ code[1] = Ord["+"]
                  THEN SubSeq(code, 2, Len(code)) ELSE code
    IN IF Len(digits) = 0 THEN None ELSE HexDigits(digits, 1, <<0, 0>>)

\* char::try_from(n).ok() of the u32 n held as <<low, high>> limbs: the scalar
\* value, none for a surrogate and for a value above 0x10FFFF
char_try_from(n) ==
    IF n[2] > 16 \/ (n[2] = 0 /\ n[1] \in 55296..57343) THEN None
    ELSE Some(n[2] * Limb + n[1])

\* Mutant of VariationSelector: the tag is read as a decimal number of 1..16 only.
VariationSelector_number(value) ==
    IF Len(value) = 1 /\ value[1] \in 49..57 THEN Some(65024 + value[1] - 49)
    ELSE IF Len(value) = 2 /\ value[1] = 49 /\ value[2] \in 48..54
    THEN Some(65024 + 9 + value[2] - 48)
    ELSE None

\* The match of the `\vs{...}` escape.
VariationSelector(value) ==
    IF value = S(<<"1">>) THEN Some(65024)
    ELSE IF value = S(<<"2">>) THEN Some(65025)
    ELSE IF value = S(<<"3">>) THEN Some(65026)
    ELSE IF value = S(<<"4">>) THEN Some(65027)
    ELSE IF value = S(<<"5">>) THEN Some(65028)
    ELSE IF value = S(<<"6">>) THEN Some(65029)
    ELSE IF value = S(<<"7">>) THEN Some(65030)
    ELSE IF value = S(<<"8">>) THEN Some(65031)
    ELSE IF value = S(<<"9">>) THEN Some(65032)
    ELSE IF value = S(<<"1", "0">>) THEN Some(65033)
    ELSE IF value = S(<<"1", "1">>) THEN Some(65034)
    ELSE IF value = S(<<"1", "2">>) THEN Some(65035)
    ELSE IF value = S(<<"1", "3">>) THEN Some(65036)
    ELSE IF value = S(<<"1", "4">>) THEN Some(65037)
    ELSE IF value \in {S(<<"1", "5">>), S(<<"t", "e", "x", "t">>)} THEN Some(65038)
    ELSE IF value \in {S(<<"1", "6">>), S(<<"e", "m", "o", "j", "i">>)} THEN Some(65039)
    ELSE None

RECURSIVE DecodeLoop(_, _)

\* decode_value at `\u{`: rest is what follows, parts its split at the first `}`.
DecodeUnicode(rest, parts, result) ==
    IF parts = None THEN Err("unclosed Unicode escape")
    ELSE IF from_str_radix_16(parts[1][1]) = None
            \/ char_try_from(from_str_radix_16(parts[1][1])[1]) = None
    THEN Err("invalid Unicode escape")
    ELSE DecodeLoop(parts[1][2],
                    Append(result, char_try_from(from_str_radix_16(parts[1][1])[1])[1]))

\* decode_value at `\vs{`.
DecodeVs(rest, parts, result) ==
    IF parts = None THEN Err("unclosed VS escape")
    ELSE IF VariationSelector(parts[1][1]) = None THEN Err("invalid VS escape")
    ELSE DecodeLoop(parts[1][2], Append(result, VariationSelector(parts[1][1])[1]))

\* decode_value at any other text: i is the index of its first backslash, or 0.
DecodePlain(input, i, result) ==
    IF i = 0 THEN Ok(result \o input)
    ELSE IF i = 1 THEN Err("invalid escape sequence")
    ELSE DecodeLoop(SubSeq(input, i, Len(input)), result \o SubSeq(input, 1, i - 1))

\* One turn of the loop of decode_value; u and vs are `input` stripped of the
\* prefixes of the two escapes.
DecodeStep(input, u, vs, result) ==
    IF u # None THEN DecodeUnicode(u[1], split_once(u[1], S(<<"}">>)), result)
    ELSE IF vs # None THEN DecodeVs(vs[1], split_once(vs[1], S(<<"}">>)), result)
    ELSE DecodePlain(input, IndexFrom(input, Ord["\\"], 1), result)

\* The loop of decode_value, with `input` still to decode and `result` so far.
DecodeLoop(input, result) ==
    DecodeStep(input, strip_prefix(input, S(<<"\\", "u", "{">>)),
               strip_prefix(input, S(<<"\\", "v", "s", "{">>)), result)

decode_value(input) == DecodeLoop(input, <<>>)

RECURSIVE ValidateParts(_, _)
\* The loop of tokenize over the modifiers of a variant: the first error, if any.
ValidateParts(parts, i) ==
    IF i > Len(parts) THEN Ok(<<>>)
    ELSE IF ~validate_ident(parts[i]).ok THEN validate_ident(parts[i])
    ELSE ValidateParts(parts, i + 1)

DeprecatedPrefix == S(<<"@", "d", "e", "p", "r", "e", "c", "a", "t", "e", "d">>)

\* tokenize, the end of the variant branch; a panic of from_raw_dotted is the
\* panic of tokenize.
TokenizeVariantValue(rest, value, debug_assertions) ==
    IF ~value.ok THEN value
    ELSE IF debug_assertions /\ ~no_empty_modifier(rest)
    THEN from_raw_dotted(rest, debug_assertions)
    ELSE Ok(Line_Variant(from_raw_dotted(rest, debug_assertions), value.val))

TokenizeSymbolValue(head, value) ==
    IF ~value.ok THEN value ELSE Ok(Line_Symbol(head, Some(value.val)))

\* tokenize, the `@deprecated` branch: inner is what stands between `@deprecated`
\* and `:`, modifier is inner without its parentheses (None if it has none).
TokenizeDeprecated(inner, modifier, tail) ==
    IF Len(inner) > 0 /\ modifier = None THEN Err("malformed modifier in deprecation")
    ELSE IF tail = None THEN Err("missing deprecation message")
    ELSE Ok(Line_Deprecated(IF Len(inner) > 0 THEN modifier ELSE None, trim(tail[1])))

\* Option::and_then(|s| s.strip_suffix(p))
and_then_strip_suffix(opt, p) == IF opt = None THEN None ELSE strip_suffix(opt[1], p)

\* Result::map: the value of a successful result r replaced by v.
OkThen(r, v) == IF r.ok THEN Ok(v) ELSE r

\* tokenize, the variant branch: rest is the head without its leading `.`.
TokenizeVariant(rest, idents, tail, debug_assertions) ==
    IF ~idents.ok THEN idents
    ELSE IF tail = None THEN Err("missing char")
    ELSE TokenizeVariantValue(rest, decode_value(tail[1]), debug_assertions)

\* tokenize, the symbol branch.
TokenizeSymbol(head, ident, tail) ==
    IF ~ident.ok THEN ident
    ELSE IF tail = None THEN Ok(Line_Symbol(head, None))
    ELSE TokenizeSymbolValue(head, decode_value(tail[1]))

\* tokenize, once the line is split at its first space; inner as above.
TokenizeSplit(head, tail, inner, debug_assertions) ==
    IF inner # None
    THEN TokenizeDeprecated(inner[1],
            and_then_strip_suffix(strip_prefix(inner[1], S(<<"(">>)), S(<<")">>)), tail)
    ELSE IF tail = Some(S(<<"{">>)) THEN OkThen(validate_ident(head), Line_ModuleStart(head))
    ELSE IF head = S(<<"}">>) /\ tail = None THEN Ok(Line_ModuleEnd)
    ELSE IF starts_with(head, S(<<".">>))
    THEN TokenizeVariant(SubSeq(head, 2, Len(head)),
            ValidateParts(Split(SubSeq(head, 2, Len(head)), Ord["."]), 1), tail,
            debug_assertions)
    ELSE TokenizeSymbol(head, validate_ident(head), tail)

\* tokenize, on the line without comment and surrounding whitespace; sp is its
\* split at the first space.
TokenizeLine(line, sp, debug_assertions) ==
    IF Len(line) = 0 THEN Ok(Line_Blank)
    ELSE IF sp = None
    THEN TokenizeSplit(line, None,
            and_then_strip_suffix(strip_prefix(line, DeprecatedPrefix), S(<<":">>)),
            debug_assertions)
    ELSE TokenizeSplit(sp[1][1], Some(sp[1][2]),
            and_then_strip_suffix(strip_prefix(sp[1][1], DeprecatedPrefix), S(<<":">>)),
            debug_assertions)

\* str::split_once(p).map_or(s, |(head, _)| head)
HeadBefore(s, p) == IF FindFrom(s, p, 1) = 0 THEN s ELSE SubSeq(s, 1, FindFrom(s, p, 1) - 1)

TokenizeTrimmed(line, debug_assertions) ==
    TokenizeLine(line, split_once(line, S(<<" ">>)), debug_assertions)

tokenize(raw, debug_assertions) ==
    TokenizeTrimmed(trim(HeadBefore(raw, S(<<"/", "/">>))), debug_assertions)

-----------------------------------------------------------------------------
(* The notation compiler (build.rs): modules and the parser *)

\* Symbol::Multi { variants, deprecations } of build.rs
MultiSymbol(variants, deps) ==
    [kind |-> "Multi", variants |-> variants, deprecations |-> deps]

Def_Symbol(symbol) == [kind |-> "Symbol", symbol |-> symbol]
Def_Module(module) == [kind |-> "Module", module |-> module]
Binding(def, deprecation) == [def |-> def, deprecation |-> deprecation]

RECURSIVE InsertByKey(_, _)
\* e put into the sorted list behind every entry whose name is not greater.
InsertByKey(sorted, e) ==
    IF Len(sorted) = 0 THEN <<e>>
    ELSE IF StrLess(e[1], sorted[Len(sorted)][1])
         THEN Append(InsertByKey(SubSeq(sorted, 1, Len(sorted) - 1), e),
                     sorted[Len(sorted)])
         ELSE Append(sorted, e)

RECURSIVE sort_by_key(_)
\* slice::sort_by_key on the name: a stable sort.
sort_by_key(list) ==
    IF Len(list) = 0 THEN <<>>
    ELSE InsertByKey(sort_by_key(SubSeq(list, 1, Len(list) - 1)), list[Len(list)])

\* Mutant of Module_new: the list is kept in the order of the declarations.
Module_new_unsorted(list) == list

\* Module::new: a Module is its list of <<name, binding>>.
Module_new(list) == sort_by_key(list)

RECURSIVE BinarySearchLoop(_, _, _, _)
\* The loop of slice::binary_search_by: the base it ends with.
BinarySearchLoop(list, name, base, size) ==
    IF size <= 1 THEN base
    ELSE LET half == size \div 2
             mid == base + half      \* 0-based
         IN BinarySearchLoop(list, name,
                             IF StrLess(name, list[mid + 1][1]) THEN base ELSE mid,
                             size - half)

\* Module::get of lib.rs, on the list the compiler emitted.
Module_get(module, name) ==
    IF Len(module) = 0 THEN None
    ELSE LET base == BinarySearchLoop(module, name, 0, Len(module)) IN
         IF module[base + 1][1] = name THEN Some(module[base + 1][2]) ELSE None

\* The state of the running parse calls.
Frame(name, deprecation) == [name |-> name, deprecation |-> deprecation, defs |-> <<>>]
Running == [status |-> "running"]

\* defs.push((name, binding)) in the innermost parse call.
Push(P, name, binding) ==
    [P EXCEPT !.stack[Len(P.stack)].defs = Append(@, <<name, binding>>)]

Fail(P, message) == [P EXCEPT !.outcome = [status |-> "err", message |-> message]]

\* The first deprecation without a modifier, and those with one.
SymbolDeprecation(deps) ==
    IF \E i \in 1..Len(deps) : deps[i][1] = None
    THEN Some(deps[CHOOSE i \in 1..Len(deps) :
                     deps[i][1] = None /\ \A j \in 1..(i - 1) : deps[j][1] # None][2])
    ELSE None

RECURSIVE ModifierDeprecations(_)
ModifierDeprecations(deps) ==
    IF Len(deps) = 0 THEN <<>>
    ELSE LET front == ModifierDeprecations(SubSeq(deps, 1, Len(deps) - 1))
             d == deps[Len(deps)]
         IN IF d[1] = None THEN front ELSE Append(front, <<d[1][1], d[2]>>)

\* Mutant of MakeSymbol: the default value is put behind the variants.
MakeSymbol_default_last(value, variants, deps) ==
    IF Len(variants) > 0
    THEN Ok(MultiSymbol(IF value # None THEN Append(variants, <<<<>>, value[1]>>)
                        ELSE variants,
                        ModifierDeprecations(deps)))
    ELSE IF value = None THEN Err("symbol needs char or variants")
    ELSE Ok(Single(value[1]))

\* Mutant of MakeSymbol: a symbol without value and variants is an empty Single.
MakeSymbol_empty(value, variants, deps) ==
    IF Len(variants) > 0
    THEN Ok(MultiSymbol(IF value # None THEN <<<<<<>>, value[1]>>>> \o variants
                        ELSE variants,
                        ModifierDeprecations(deps)))
    ELSE IF value = None THEN Ok(Single(<<>>))
    ELSE Ok(Single(value[1]))

\* parse: the symbol of a declaration and its collected variants.
MakeSymbol(value, variants, deps) ==
    IF Len(variants) > 0
    THEN Ok(MultiSymbol(IF value # None THEN <<<<<<>>, value[1]>>>> \o variants
                        ELSE variants,
                        ModifierDeprecations(deps)))
    ELSE IF value = None THEN Err("symbol needs char or variants")
    ELSE Ok(Single(value[1]))

\* parse: the end of the `while let` loop: the collected symbol becomes a binding.
FinishSymbol(P) ==
    IF P.cur = None THEN P
    ELSE LET c == P.cur[1]
             symbol == MakeSymbol(c.value, c.variants, c.deprecations)
             binding == Binding(Def_Symbol(symbol.val), SymbolDeprecation(c.deprecations))
         IN IF ~symbol.ok THEN Fail([P EXCEPT !.cur = None], symbol.err)
            ELSE [Push(P, c.name, binding) EXCEPT
                    !.cur = None,
                    !.log_push = Append(@, <<c.name, binding>>)]

\* parse returns Ok(defs): to the parse call that recursed, or to process.
Return(P) ==
    LET frame == P.stack[Len(P.stack)]
        module == Module_new(frame.defs)
        logged == [P EXCEPT !.log_new = Append(@, [defs |-> frame.defs, module |-> module])]
    IN IF Len(P.stack) = 1
       THEN [logged EXCEPT !.stack = <<>>,
                           !.outcome = [status |-> "ok", module |-> module]]
       ELSE Push([logged EXCEPT !.stack = SubSeq(@, 1, Len(@) - 1)],
                 frame.name, Binding(Def_Module(module), frame.deprecation))

RECURSIVE Unwind(_)
\* The iterator is exhausted: every active parse call breaks and returns.
Unwind(P) == IF Len(P.stack) = 0 THEN P ELSE Unwind(Return(P))

\* Mutant of MainLoop: a variant that no symbol collects is passed over.
MainLoop_skipping(P, d) ==
    IF d.kind = "ModuleEnd" THEN Return(P)
    ELSE IF d.kind = "Symbol"
    THEN [P EXCEPT !.cur = Some([name |-> d.name, value |-> d.value,
                                 deprecations |-> d.deprecations, variants |-> <<>>])]
    ELSE IF d.kind = "ModuleStart"
    THEN [P EXCEPT !.stack = Append(@, Frame(d.name, d.deprecation))]
    ELSE P

\* Mutant of MainLoop: a module-end line is passed over.
MainLoop_unscoped(P, d) ==
    IF d.kind = "ModuleEnd" THEN P
    ELSE IF d.kind = "Symbol"
    THEN [P EXCEPT !.cur = Some([name |-> d.name, value |-> d.value,
                                 deprecations |-> d.deprecations, variants |-> <<>>])]
    ELSE IF d.kind = "ModuleStart"
    THEN [P EXCEPT !.stack = Append(@, Frame(d.name, d.deprecation))]
    ELSE Fail(P, "expected definition")

\* parse: the match of the main loop on a declaration.
MainLoop(P, d) ==
    IF d.kind = "ModuleEnd" THEN Return(P)
    ELSE IF d.kind = "Symbol"
    THEN [P EXCEPT !.cur = Some([name |-> d.name, value |-> d.value,
                                 deprecations |-> d.deprecations, variants |-> <<>>])]
    ELSE IF d.kind = "ModuleStart"
    THEN [P EXCEPT !.stack = Append(@, Frame(d.name, d.deprecation))]
    ELSE Fail(P, "expected definition")

\* Mutant of OnDeclaration: a collected variant is put before the earlier ones.
OnDeclaration_reversed(P, d) ==
    IF P.cur # None /\ d.kind = "Variant"
    THEN [P EXCEPT !.cur[1].variants = <<<<d.modifiers, d.value>>>> \o @]
    ELSE LET Q == FinishSymbol(P) IN
         IF Q.outcome.status = "err" THEN Q ELSE MainLoop(Q, d)

\* parse is handed the declaration d: by peek while it collects variants, by next
\* in the main loop.
OnDeclaration(P, d) ==
    IF P.cur # None /\ d.kind = "Variant"
    THEN [P EXCEPT !.cur[1].variants = Append(@, <<d.modifiers, d.value>>)]
    ELSE LET Q == FinishSymbol(P) IN
         IF Q.outcome.status = "err" THEN Q ELSE MainLoop(Q, d)

\* parse finds the iterator exhausted.
OnEnd(P) ==
    LET Q == FinishSymbol(P) IN
    IF Q.outcome.status = "err" THEN Q ELSE Unwind(Q)

-----------------------------------------------------------------------------
(* process as a state machine: each action reads one line of the file. *)

MaxLines == 4

\* The lines a file is made of.
Lines == {
    S(<<"a", " ", "x">>),
    S(<<"B", " ", "y">>),
    S(<<"b">>),
    S(<<".", "a", " ", "z">>),
    S(<<".", "b", ".", "a", " ", "w">>),
    S(<<"m", " ", "{">>),
    S(<<"}">>),
    S(<<"@", "d", "e", "p", "r", "e", "c", "a", "t", "e", "d", ":", " ", "o", "l", "d">>),
    S(<<"@", "d", "e", "p", "r", "e", "c", "a", "t", "e", "d", ":", " ", "n", "e", "w">>),
    <<160>> \o S(<<" ", "/", "/", " ", "c">>),
    S(<<"a", "1", " ", "x">>),
    <<233>> \o S(<<" ", "{">>),
    S(<<".", ".", "a", " ", "z">>),
    S(<<".", "a", ".", "a", " ", "z">>),
    S(<<"r", " ", "@", "=", " ", "a", ".", "a">>),
    S(<<"r", " ", "@", "=", " ", "a", ".", "a", ".", "*">>) }

\* The lines the second corpus file is made of.
EmojiLines == {
    S(<<"a", " ", "x">>),
    S(<<"b">>),
    S(<<".", "a", " ", "z">>) }

\* tokenize on each line of the model, in the build without (FALSE) and with
\* (TRUE) debug assertions.
TokenizedIn ==
    [debug_assertions \in BOOLEAN |->
        [raw \in Lines |-> tokenize(raw, debug_assertions)]]

\* The tokens tokenize may give for each line, over the builds.
TokensOf ==
    [raw \in Lines |->
        {TokenizedIn[debug_assertions][raw] : debug_assertions \in BOOLEAN}]

\* The token of each line as the properties below read it.  validate_ident has
\* refused every empty modifier before tokenize calls from_raw_dotted, so the
\* build makes no difference to it.
Tokenized == TokenizedIn[TRUE]

\* The corpus files of main, in the order it processes them: the names of their
\* tables.
Corpora == <<"SYM", "EMOJI">>

\* process is called: nothing read yet.
StartProcess ==
    /\ text = <<>>
    /\ line_nr = 0
    /\ deprecations = <<>>
    /\ stack = <<Frame(<<>>, None)>>
    /\ cur = None
    /\ outcome = Running
    /\ log_new = <<>>
    /\ log_push = <<>>

\* main before its first call of process.
InitBuild ==
    /\ StartProcess
    /\ read = <<>>
    /\ buf = <<>>
    /\ out = None

\* The lines read so far, over all files.
LinesRead == line_nr + (IF Len(read) = 0 THEN 0 ELSE Len(read[1]))

Parser == [stack |-> stack, cur |-> cur, outcome |-> outcome,
           log_new |-> log_new, log_push |-> log_push]

\* The parser state after the step; an error ends process with the line number,
\* and the module of a successful parse is written to the buffer.
Becomes(P) ==
    /\ buf' = IF P.outcome.status = "ok"
              THEN Append(buf, [name |-> Corpora[Len(read) + 1],
                                module |-> P.outcome.module])
              ELSE buf
    /\ UNCHANGED <<read, out>>
    /\ stack' = P.stack
    /\ cur' = P.cur
    /\ outcome' = IF P.outcome.status = "err"
                  THEN [status |-> "err", message |-> P.outcome.message, line |-> line_nr']
                  ELSE P.outcome
    /\ log_new' = P.log_new
    /\ log_push' = P.log_push

\* The next line of the file is raw, which tokenize turns into tok.
Reads(raw, tok, kind) ==
    /\ outcome = Running
    /\ LinesRead < MaxLines
    /\ Len(read) > 0 => raw \in EmojiLines
    /\ IF kind = "Err" THEN ~tok.ok ELSE tok.ok /\ tok.val.kind = kind
    /\ text' = Append(text, raw)
    /\ line_nr' = line_nr + 1

ReadInvalid ==
    \E raw \in Lines :
    \E tok \in TokensOf[raw] :
        /\ Reads(raw, tok, "Err")
        /\ Becomes(Fail(Parser, tok.err))
        /\ UNCHANGED <<deprecations, queryVars>>

ReadBlank ==
    \E raw \in Lines :
    \E tok \in TokensOf[raw] :
        /\ Reads(raw, tok, "Blank")
        /\ UNCHANGED <<deprecations, stack, cur, outcome, log_new, log_push, queryVars,
                       read, buf, out>>

ReadDeprecated ==
    \E raw \in Lines :
    \E tok \in TokensOf[raw] :
        /\ Reads(raw, tok, "Deprecated")
        /\ deprecations' = Append(deprecations, <<tok.val.modifier, tok.val.message>>)
        /\ UNCHANGED <<stack, cur, outcome, log_new, log_push, queryVars,
                       read, buf, out>>

ReadModuleStart ==
    \E raw \in Lines :
    \E tok \in TokensOf[raw] :
        LET taken == deprecations IN
        /\ Reads(raw, tok, "ModuleStart")
        /\ deprecations' = <<>>
        /\ IF Len(taken) > 1 \/ (Len(taken) = 1 /\ taken[1][1] # None)
           THEN Becomes(Fail(Parser, "wrong deprecation format for module"))
           ELSE Becomes(OnDeclaration(Parser,
                    Declaration_ModuleStart(tok.val.name,
                        IF taken = <<>> THEN None ELSE Some(taken[1][2]))))
        /\ UNCHANGED queryVars

ReadModuleEnd ==
    \E raw \in Lines :
    \E tok \in TokensOf[raw] :
        /\ Reads(raw, tok, "ModuleEnd")
        /\ IF deprecations # <<>>
           THEN Becomes(Fail(Parser, "dangling @deprecated:"))
           ELSE Becomes(OnDeclaration(Parser, Declaration_ModuleEnd))
        /\ UNCHANGED <<deprecations, queryVars>>

ReadSymbol ==
    \E raw \in Lines :
    \E tok \in TokensOf[raw] :
        /\ Reads(raw, tok, "Symbol")
        /\ deprecations' = <<>>
        /\ Becomes(OnDeclaration(Parser,
                Declaration_Symbol(tok.val.name, tok.val.value, deprecations)))
        /\ UNCHANGED queryVars

ReadVariant ==
    \E raw \in Lines :
    \E tok \in TokensOf[raw] :
        /\ Reads(raw, tok, "Variant")
        /\ IF deprecations # <<>>
           THEN Becomes(Fail(Parser, "dangling @deprecated:"))
           ELSE Becomes(OnDeclaration(Parser,
                    Declaration_Variant(tok.val.modifiers, tok.val.value)))
        /\ UNCHANGED <<deprecations, queryVars>>

\* Mutant of ReadEof: the end of the file is accepted whatever is pending.
ReadEof_accepting ==
    /\ outcome = Running
    /\ UNCHANGED <<text, line_nr, deprecations, queryVars>>
    /\ Becomes(OnEnd(Parser))

\* The file has no further line: Line::Eof.
ReadEof ==
    /\ outcome = Running
    /\ UNCHANGED <<text, line_nr, deprecations, queryVars>>
    /\ IF deprecations # <<>>
       THEN Becomes(Fail(Parser, "dangling @deprecated:"))
       ELSE Becomes(OnEnd(Parser))

\* main: the first call of process has returned, the second begins.
ProcessNext ==
    /\ outcome.status = "ok"
    /\ Len(read) + 1 < Len(Corpora)
    /\ read' = Append(read, text)
    /\ text' = <<>>
    /\ line_nr' = 0
    /\ deprecations' = <<>>
    /\ stack' = <<Frame(<<>>, None)>>
    /\ cur' = None
    /\ outcome' = Running
    /\ log_new' = <<>>
    /\ log_push' = <<>>
    /\ UNCHANGED <<buf, out, queryVars>>

\* Mutant of WriteOut: out.rs is written however the last call of process ended.
WriteOut_whatever ==
    /\ outcome.status \in {"ok", "err"}
    /\ Len(read) + 1 = Len(Corpora)
    /\ out = None
    /\ out' = Some(buf)
    /\ UNCHANGED <<text, line_nr, deprecations, stack, cur, outcome, log_new, log_push,
                   read, buf, queryVars>>

\* main: every call of process has returned, and out.rs is written.
WriteOut ==
    /\ outcome.status = "ok"
    /\ Len(read) + 1 = Len(Corpora)
    /\ out = None
    /\ out' = Some(buf)
    /\ UNCHANGED <<text, line_nr, deprecations, stack, cur, outcome, log_new, log_push,
                   read, buf, queryVars>>

NextBuild ==
    \/ ReadInvalid
    \/ ReadBlank
    \/ ReadDeprecated
    \/ ReadModuleStart
    \/ ReadModuleEnd
    \/ ReadSymbol
    \/ ReadVariant
    \/ ReadEof
    \/ ProcessNext
    \/ WriteOut

-----------------------------------------------------------------------------
(* Inputs of the query API: modifier sets that satisfy the precondition of  *)
(* from_raw_dotted (no empty modifier, no modifier twice), given as token   *)
(* lists and rendered to the dotted string the code works on.               *)

MaxMods == 2
MaxCands == 2

Names == {S(<<"a">>), S(<<"b">>)}
Tokens == [name : Names, optional : BOOLEAN]

RECURSIVE SeqsUpTo(_, _)
SeqsUpTo(T, n) ==
    IF n = 0 THEN {<<>>}
    ELSE LET shorter == SeqsUpTo(T, n - 1) IN
         shorter \cup {Append(s, x) : s \in {z \in shorter : Len(z) = n - 1}, x \in T}

TokenLists ==
    {ts \in SeqsUpTo(Tokens, MaxMods) :
        \A i, j \in 1..Len(ts) : i # j => ts[i].name # ts[j].name}

RECURSIVE Dotted(_)
\* The dotted string of a token list: names joined by `.`, optional ones with `?`.
Dotted(ts) ==
    IF Len(ts) = 0 THEN <<>>
    ELSE LET t == ts[Len(ts)]
             m == IF t.optional THEN Append(t.name, Ord["?"]) ELSE t.name
         IN IF Len(ts) = 1 THEN m
            ELSE Dotted(SubSeq(ts, 1, Len(ts) - 1)) \o <<Ord["."]>> \o m

CandLists == SeqsUpTo(TokenLists, MaxCands)

\* The candidates handed to best_match_in: candidate i carries the value i.
Variants(cands, debug_assertions) ==
    [i \in 1..Len(cands) |-> <<from_raw_dotted(Dotted(cands[i]), debug_assertions), i>>]

Values == <<<<8594>>, <<8592>>, <<8593>>, <<8595>>>>
Message == <<111, 108, 100>>

\* A Multi symbol over the candidate sets: variant i has the value Values[i], and
\* the variants at even positions are deprecated.
MultiOf(cands, debug_assertions) ==
    Multi([i \in 1..Len(cands) |->
            <<from_raw_dotted(Dotted(cands[i]), debug_assertions),
              Values[((i - 1) % Len(Values)) + 1],
              IF i % 2 = 0 THEN Some(Message) ELSE None>>])

-----------------------------------------------------------------------------
(* The query API as a state machine: each action is one call. *)

Idle == [fn |-> "none"]

\* Nothing called, nothing read.
InitQuery ==
    /\ call = Idle
    /\ ret = None
    /\ InitBuild

CallContains ==
    /\ call = Idle
    /\ UNCHANGED buildVars
    /\ \E ts \in TokenLists, m \in Names :
       \E self \in {from_raw_dotted(Dotted(ts), debug_assertions) :
                        debug_assertions \in BOOLEAN} :
        /\ call' = [fn |-> "contains", self |-> ts, m |-> m]
        /\ ret' = contains(self, m)

CallIsSubset ==
    /\ call = Idle
    /\ UNCHANGED buildVars
    /\ \E a \in TokenLists, b \in TokenLists :
       \E sets \in {<<from_raw_dotted(Dotted(a), debug_assertions),
                        from_raw_dotted(Dotted(b), debug_assertions)>> :
                        debug_assertions \in BOOLEAN} :
        /\ call' = [fn |-> "is_subset", self |-> a, other |-> b]
        /\ ret' = is_subset(sets[1], sets[2])

CallRequiredIsSubset ==
    /\ call = Idle
    /\ UNCHANGED buildVars
    /\ \E a \in TokenLists, b \in TokenLists :
       \E sets \in {<<from_raw_dotted(Dotted(a), debug_assertions),
                        from_raw_dotted(Dotted(b), debug_assertions)>> :
                        debug_assertions \in BOOLEAN} :
        /\ call' = [fn |-> "required_is_subset", self |-> a, other |-> b]
        /\ ret' = required_is_subset(sets[1], sets[2])

CallBestMatchIn ==
    /\ call = Idle
    /\ UNCHANGED buildVars
    /\ \E q \in TokenLists, cands \in CandLists :
       \E sets \in {<<from_raw_dotted(Dotted(q), debug_assertions),
                        Variants(cands, debug_assertions)>> :
                        debug_assertions \in BOOLEAN} :
        /\ call' = [fn |-> "best_match_in", self |-> q, cands |-> cands]
        /\ ret' = best_match_in(sets[1], sets[2])

CallSymbolGetSingle ==
    /\ call = Idle
    /\ UNCHANGED buildVars
    /\ \E q \in TokenLists, v \in {Values[1], Values[2]} :
       \E self \in {from_raw_dotted(Dotted(q), debug_assertions) :
                        debug_assertions \in BOOLEAN} :
        /\ call' = [fn |-> "get", sym |-> Single(v), self |-> q]
        /\ ret' = Symbol_get(Single(v), self)

CallSymbolGetMulti ==
    /\ call = Idle
    /\ UNCHANGED buildVars
    /\ \E q \in TokenLists, cands \in CandLists :
       \E sets \in {<<MultiOf(cands, debug_assertions),
                        from_raw_dotted(Dotted(q), debug_assertions)>> :
                        debug_assertions \in BOOLEAN} :
        /\ call' = [fn |-> "get", sym |-> sets[1], cands |-> cands, self |-> q]
        /\ ret' = Symbol_get(sets[1], sets[2])

\* Dotted strings as a caller may hand them to from_raw_dotted, those with an
\* empty modifier among them.
RawDotted == {
    <<>>,
    S(<<"a">>),
    S(<<"a", ".", "b">>),
    S(<<"a", "?", ".", "b">>),
    S(<<"a", ".", ".", "b">>),
    S(<<"a", ".", "?", ".", "b">>),
    S(<<".", ".">>),
    S(<<".", "?", ".">>) }

CallFromRawDotted ==
    /\ call = Idle
    /\ UNCHANGED buildVars
    /\ \E s \in RawDotted, debug_assertions \in BOOLEAN :
        /\ call' = [fn |-> "from_raw_dotted", s |-> s,
                    debug_assertions |-> debug_assertions]
        /\ ret' = from_raw_dotted(s, debug_assertions)

NextQuery ==
    \/ CallFromRawDotted
    \/ CallContains
    \/ CallIsSubset
    \/ CallRequiredIsSubset
    \/ CallBestMatchIn
    \/ CallSymbolGetSingle
    \/ CallSymbolGetMulti

SpecQuery == InitQuery /\ [][NextQuery]_vars

SpecBuild == InitQuery /\ [][NextBuild]_vars

-----------------------------------------------------------------------------
(* What the claims say, stated on the token lists. *)

NameSet(ts) == {ts[i].name : i \in 1..Len(ts)}
RequiredNameSet(ts) == {ts[i].name : i \in {j \in 1..Len(ts) : ~ts[j].optional}}

Eligible(q, s) == RequiredNameSet(s) \subseteq NameSet(q) /\ NameSet(q) \subseteq NameSet(s)

InCommon(q, s) == Cardinality({i \in 1..Len(s) : s[i].name \in NameSet(q)})

\* s scores strictly better than t for the query q.
Better(q, s, t) ==
    \/ InCommon(q, s) > InCommon(q, t)
    \/ InCommon(q, s) = InCommon(q, t) /\ Len(s) < Len(t)

\* i is the first of the best eligible candidates.
IsFirstBest(q, cands, i) ==
    /\ Eligible(q, cands[i])
    /\ \A j \in 1..Len(cands) :
          Eligible(q, cands[j]) =>
              /\ ~Better(q, cands[j], cands[i])
              /\ j < i => Better(q, cands[i], cands[j])

Perms(ts) == {p \in TokenLists : Len(p) = Len(ts) /\ {p[i] : i \in 1..Len(p)} = {ts[i] : i \in 1..Len(ts)}}

RECURSIVE PermCands(_)
\* The candidate lists that list the tokens of each candidate in some other order.
PermCands(cands) ==
    IF Len(cands) = 0 THEN {<<>>}
    ELSE {Append(cs, p) : cs \in PermCands(SubSeq(cands, 1, Len(cands) - 1)),
                          p \in Perms(cands[Len(cands)])}

\* C1: best_match_in returns Some(v) only for an eligible candidate (s, v) (every
\* non-optional name of s is in the query, every name of the query is in s), and
\* None exactly when no candidate is eligible.
C1_EligibleOnly ==
    call.fn = "best_match_in" =>
        /\ ret # None =>
              \E i \in 1..Len(call.cands) : ret = Some(i) /\ Eligible(call.self, call.cands[i])
        /\ ret = None <=>
              ~\E i \in 1..Len(call.cands) : Eligible(call.self, call.cands[i])

\* C1 witness: a call with an eligible and an ineligible candidate, answered.
C1_Witness ==
    /\ call.fn = "best_match_in"
    /\ ret # None
    /\ \E i \in 1..Len(call.cands) : ~Eligible(call.self, call.cands[i])
    /\ \E i \in 1..Len(call.cands) : \E k \in 1..Len(call.cands[i]) : call.cands[i][k].optional

\* C2: among the eligible candidates best_match_in returns the value of the one with
\* the most names in common with the query, then the fewest tokens, and the first
\* of those in the input order.
C2_BestScoreFirst ==
    call.fn = "best_match_in" =>
        \A i \in 1..Len(call.cands) :
            IsFirstBest(call.self, call.cands, i) => ret = Some(i)

\* C2 witness: two eligible candidates of equal score, and two of different score.
C2_Witness ==
    /\ call.fn = "best_match_in"
    /\ Len(call.cands) = 2
    /\ Eligible(call.self, call.cands[1])
    /\ Eligible(call.self, call.cands[2])
    /\ \/ ret = Some(1) /\ ~Better(call.self, call.cands[1], call.cands[2])
       \/ ret = Some(2) /\ Better(call.self, call.cands[2], call.cands[1])

\* C3: a.is_subset(b) iff every name of a (its `?` stripped) names a token of b,
\* optional or not on either side.
C3_IsSubsetByName ==
    call.fn = "is_subset" =>
        (ret <=> NameSet(call.self) \subseteq NameSet(call.other))

\* C3 witness: `a?` is a subset of `a.b`.
C3_Witness ==
    /\ call.fn = "is_subset"
    /\ call.self = <<[name |-> S(<<"a">>), optional |-> TRUE]>>
    /\ call.other = <<[name |-> S(<<"a">>), optional |-> FALSE],
                      [name |-> S(<<"b">>), optional |-> FALSE]>>
    /\ ret = TRUE

\* The modifier set of the tokens ts, as the build with debug assertions makes it:
\* Dotted writes no empty modifier, so the assertion of from_raw_dotted holds.
ModifierSetOf(ts) == from_raw_dotted(Dotted(ts), TRUE)

\* C4: listing the tokens of a modifier set in another order changes the result of
\* none of contains, is_subset, required_is_subset (either argument) and
\* best_match_in (the query, and the set of any candidate).
C4_OrderIndependent ==
    /\ call.fn = "contains" =>
          \A p \in Perms(call.self) : contains(ModifierSetOf(p), call.m) = ret
    /\ call.fn = "is_subset" =>
          \A p \in Perms(call.self), r \in Perms(call.other) :
              is_subset(ModifierSetOf(p), ModifierSetOf(r)) = ret
    /\ call.fn = "required_is_subset" =>
          \A p \in Perms(call.self), r \in Perms(call.other) :
              required_is_subset(ModifierSetOf(p), ModifierSetOf(r)) = ret
    /\ call.fn = "best_match_in" =>
          \A p \in Perms(call.self), cs \in PermCands(call.cands) :
              best_match_in(ModifierSetOf(p), Variants(cs, TRUE)) = ret

\* C4 witness: a two-token query answered from a two-token candidate.
C4_Witness ==
    /\ call.fn = "best_match_in"
    /\ Len(call.self) = 2
    /\ ret # None
    /\ Len(call.cands[ret[1]]) = 2
    /\ Cardinality(PermCands(call.cands)) > 1

\* C5: Symbol::get on Single(v) is (v, no deprecation) for the empty query and None
\* for any other; on Multi it is the best match among the variants in stored order.
C5_SymbolGet ==
    call.fn = "get" =>
        IF call.sym.kind = "Single"
        THEN ret = IF call.self = <<>> THEN Some(<<call.sym.value, None>>) ELSE None
        ELSE /\ ret = None <=>
                    ~\E i \in 1..Len(call.cands) : Eligible(call.self, call.cands[i])
             /\ \A i \in 1..Len(call.cands) :
                    IsFirstBest(call.self, call.cands, i) =>
                        ret = Some(<<call.sym.list[i][2], call.sym.list[i][3]>>)

\* C5 witness: a Multi symbol answering with its second, deprecated variant.
C5_Witness ==
    /\ call.fn = "get"
    /\ call.sym.kind = "Multi"
    /\ Len(call.self) > 0
    /\ ret = Some(<<Values[2], Some(Message)>>)

\* C6 (as claimed): get with the empty modifier set on a Multi symbol returns the
\* value of the symbol's first variant.
C6_DefaultsToFirstVariant ==
    (call.fn = "get" /\ call.sym.kind = "Multi" /\ Len(call.sym.list) > 0
        /\ call.self = <<>>)
        => (ret # None /\ ret[1][1] = call.sym.list[1][2])

-----------------------------------------------------------------------------
(* Claims about the compiled tree *)

RECURSIVE AllModules(_)
\* The module and every module nested in it, at any depth.
AllModules(module) ==
    {module} \cup UNION {AllModules(module[i][2].def.module) :
                            i \in {j \in 1..Len(module) : module[j][2].def.kind = "Module"}}

Compiled == outcome.status = "ok"

\* The names of a module ascend in byte order.
Ascending(module) ==
    \A i, j \in 1..Len(module) : i < j => ~StrLess(module[j][1], module[i][1])

StrictlyAscending(module) ==
    \A i, j \in 1..Len(module) : i < j => StrLess(module[i][1], module[j][1])

\* C7: after a successful compilation every module of the tree, at every depth,
\* holds its bindings sorted by name in ascending byte order.
C7_ModulesSorted ==
    Compiled => \A module \in AllModules(outcome.module) : Ascending(module)

\* C7 witness: a compiled tree with a nested module whose declarations were not in
\* name order, one of them with an upper-case name.
C7_Witness ==
    /\ Compiled
    /\ Len(log_new) >= 2
    /\ log_new[1].defs # log_new[1].module
    /\ \E i \in 1..Len(log_new[1].defs) : log_new[1].defs[i][1] = S(<<"B">>)

\* C8 (as claimed): in every module of a compiled tree the names are strictly
\* increasing, so no two bindings of one scope share a name.
C8_NamesUnique ==
    Compiled => \A module \in AllModules(outcome.module) : StrictlyAscending(module)

\* The names looked up: those of the lines, and one that no line declares.
LookupNames == {S(<<"a">>), S(<<"B">>), S(<<"b">>), S(<<"m">>), S(<<"c">>)}

\* C9 (as claimed): Module::get(name) on a module of the compiled tree returns the
\* binding declared under that name in that scope, for every declaration of the
\* scope, and None for a name not declared in it.
C9_GetReturnsDeclared ==
    Compiled =>
        \A k \in 1..Len(log_new) :
            /\ \A i \in 1..Len(log_new[k].defs) :
                  Module_get(log_new[k].module, log_new[k].defs[i][1])
                      = Some(log_new[k].defs[i][2])
            /\ \A name \in LookupNames :
                  (\A i \in 1..Len(log_new[k].defs) : log_new[k].defs[i][1] # name)
                      => Module_get(log_new[k].module, name) = None

RECURSIVE SymbolLine(_, _)
\* The number of the k-th line of the text, from line i on, that declares a symbol.
SymbolLine(k, i) ==
    IF Tokenized[text[i]].ok /\ Tokenized[text[i]].val.kind = "Symbol"
    THEN IF k = 1 THEN i ELSE SymbolLine(k - 1, i + 1)
    ELSE SymbolLine(k, i + 1)

RECURSIVE VariantRun(_)
\* The variants declared by the variant lines from line j on, up to the next line
\* that is neither a variant nor blank.
VariantRun(j) ==
    IF j > Len(text) \/ ~Tokenized[text[j]].ok THEN <<>>
    ELSE IF Tokenized[text[j]].val.kind = "Blank" THEN VariantRun(j + 1)
    ELSE IF Tokenized[text[j]].val.kind = "Variant"
    THEN <<<<Tokenized[text[j]].val.modifiers, Tokenized[text[j]].val.value>>>>
            \o VariantRun(j + 1)
    ELSE <<>>

\* What the claim says of the symbol declared on line i with the default value.
DefaultFirst(symbol, value, run) ==
    IF run = <<>> THEN symbol = Single(value)
    ELSE symbol.kind = "Multi" /\ symbol.variants = <<<<<<>>, value>>>> \o run

\* C10: a symbol declared with a default value and followed by variant lines
\* compiles to a Multi symbol with (empty modifier set, default) at position 0 and
\* then the declared variants in source order; with a value and no variant line it
\* compiles to Single(value).  The binding is part of the compiled tree.
C10_DefaultFirst ==
    \A k \in 1..Len(log_push) :
        /\ Tokenized[text[SymbolLine(k, 1)]].val.name = log_push[k][1]
        /\ Tokenized[text[SymbolLine(k, 1)]].val.value # None =>
              DefaultFirst(log_push[k][2].def.symbol,
                           Tokenized[text[SymbolLine(k, 1)]].val.value[1],
                           VariantRun(SymbolLine(k, 1) + 1))
        /\ Compiled =>
              \E module \in AllModules(outcome.module) :
                  \E i \in 1..Len(module) : module[i] = log_push[k]

\* C10 witness: a compiled symbol with its default and two declared variants, and a
\* compiled symbol that is a single value.
C10_Witness ==
    /\ Compiled
    /\ \E k \in 1..Len(log_push) :
          /\ log_push[k][2].def.symbol.kind = "Multi"
          /\ Len(log_push[k][2].def.symbol.variants) = 3
          /\ log_push[k][2].def.symbol.variants[1][1] = <<>>
    /\ \E k \in 1..Len(log_push) : log_push[k][2].def.symbol.kind = "Single"

-----------------------------------------------------------------------------
(* Deprecation annotations and errors *)

\* The kind of the line last read.
LastKind ==
    IF Len(text) = 0 THEN "None"
    ELSE IF ~Tokenized[text[Len(text)]].ok THEN "Err"
    ELSE Tokenized[text[Len(text)]].val.kind

Failed(message) == outcome.status = "err" /\ outcome.message = message

\* C11: a module-end line, or the end of the file, reached while a `@deprecated`
\* annotation is pending makes the compilation fail with the dangling-deprecation
\* error.  (The end of the file is reached when process has ended with an
\* annotation or a blank line as the last line read.)
C11_DanglingIsFatal ==
    /\ (deprecations # <<>> /\ LastKind = "ModuleEnd")
          => Failed("dangling @deprecated:")
    /\ (deprecations # <<>> /\ outcome # Running /\ LastKind \in {"Deprecated", "Blank"})
          => Failed("dangling @deprecated:")

\* C11 witness: the `}` of a nested module read right after an annotation.
C11_Witness ==
    /\ Failed("dangling @deprecated:")
    /\ LastKind = "ModuleEnd"
    /\ Len(stack) = 2
    /\ Len(deprecations) = 1

\* The kind of line i of the text read.
Kind(i) == IF Tokenized[text[i]].ok THEN Tokenized[text[i]].val.kind ELSE "Err"

RECURSIVE AnnotationBefore(_)
\* The message of the `@deprecated:` annotation that immediately precedes line i,
\* blank and comment lines apart; None if no annotation does.
AnnotationBefore(i) ==
    IF i = 1 THEN None
    ELSE IF Kind(i - 1) = "Blank" THEN AnnotationBefore(i - 1)
    ELSE IF Kind(i - 1) = "Deprecated" /\ Tokenized[text[i - 1]].val.modifier = None
    THEN Some(Tokenized[text[i - 1]].val.message)
    ELSE None

RECURSIVE OpenLine(_, _)
\* The module-start line that the module-end line after line i closes, depth being
\* the number of module-end lines passed on the way back.
OpenLine(i, depth) ==
    IF i = 0 THEN 0
    ELSE IF Kind(i) = "ModuleEnd" THEN OpenLine(i - 1, depth + 1)
    ELSE IF Kind(i) = "ModuleStart"
    THEN IF depth = 0 THEN i ELSE OpenLine(i - 1, depth - 1)
    ELSE OpenLine(i - 1, depth)

\* A nested module has just been closed and bound in the enclosing scope.
ModuleClosed ==
    /\ LastKind = "ModuleEnd"
    /\ outcome = Running
    /\ OpenLine(Len(text) - 1, 0) > 0

\* C12 (as claimed): an annotation attaches to the next module-start or symbol
\* declaration and to nothing else: the binding of a declaration carries the message
\* of the annotation that immediately precedes it, and none if no annotation does;
\* once the declaration is read nothing is pending.
C12_AttachesToNext ==
    /\ \A k \in 1..Len(log_push) :
          log_push[k][2].deprecation = AnnotationBefore(SymbolLine(k, 1))
    /\ ModuleClosed =>
          stack[Len(stack)].defs[Len(stack[Len(stack)].defs)][2].deprecation
              = AnnotationBefore(OpenLine(Len(text) - 1, 0))
    /\ (outcome = Running /\ LastKind \in {"ModuleStart", "Symbol"}) => deprecations = <<>>

\* C13: every compiler error is fatal to the whole build: when the compilation of
\* either corpus file fails, out.rs is not written, not even with the table of a
\* corpus compiled before; out.rs is written only with the tables of all corpora.
C13_AllOrNothing ==
    /\ outcome.status = "err" => out = None
    /\ out # None =>
          /\ Compiled
          /\ Len(read) + 1 = Len(Corpora)
          /\ out = Some(buf)
          /\ Len(buf) = Len(Corpora)

\* C13 witness: the first corpus was compiled to a table with bindings, the second
\* failed, and nothing is written.
C13_Witness ==
    /\ outcome.status = "err"
    /\ Len(read) = 1
    /\ Len(buf) = 1
    /\ Len(buf[1].module) > 0
    /\ out = None

\* Line i declares a symbol without a value that no variant line follows.
NeedsValue(i) ==
    /\ Kind(i) = "Symbol"
    /\ Tokenized[text[i]].val.value = None
    /\ VariantRun(i + 1) = <<>>

\* The line that causes the error the compilation ended with is line i.
Culprit(i) ==
    /\ i \in 1..Len(text)
    /\ IF Failed("symbol needs char or variants")
       THEN NeedsValue(i) /\ \A j \in 1..(i - 1) : ~NeedsValue(j)
       ELSE IF Failed("dangling @deprecated:")
       THEN \/ i = Len(text)
            \/ Kind(i) = "Deprecated" /\ \A j \in (i + 1)..Len(text) : Kind(j) = "Blank"
       ELSE IF Failed("wrong deprecation format for module")
       THEN i = Len(text) /\ Kind(i) = "ModuleStart"
       ELSE IF Failed("expected definition")
       THEN i = Len(text) /\ Kind(i) = "Variant"
       ELSE i = Len(text) /\ Kind(i) = "Err"
                          /\ outcome.message = Tokenized[text[i]].err

\* C14 (as claimed): every compilation error, of the tokenizer, of the deprecation
\* bookkeeping or of the parser, is reported with the 1-based number of the source
\* line that caused it.
C14_ErrorLineIsCulprit ==
    outcome.status = "err" => Culprit(outcome.line)

RECURSIVE NextDecl(_)
\* The first line after line i that is not blank; 0 if the text read has none.
NextDecl(i) ==
    IF i >= Len(text) THEN 0
    ELSE IF Kind(i + 1) = "Blank" THEN NextDecl(i + 1)
    ELSE i + 1

\* C15: a symbol declaration without a default value that no variant line follows
\* is a fatal compilation error (raised when the next declaration, or the end of the
\* file, shows that no variant follows), and no binding is produced for it.
C15_NeedsCharOrVariants ==
    /\ \A i \in 1..Len(text) :
          /\ (NeedsValue(i) /\ outcome # Running) => outcome.status = "err"
          /\ (NeedsValue(i) /\ NextDecl(i) = 0 /\ outcome # Running)
                => Failed("symbol needs char or variants")
          /\ (NeedsValue(i) /\ NextDecl(i) > 0
                /\ Kind(NextDecl(i)) \in {"Symbol", "ModuleStart", "ModuleEnd"})
                => Failed("symbol needs char or variants")
    /\ \A k \in 1..Len(log_push) : ~NeedsValue(SymbolLine(k, 1))

\* C15 witness: after a symbol that was bound, a symbol without value is the last
\* declaration of a nested module, and the compilation has failed for it.
C15_Witness ==
    /\ Failed("symbol needs char or variants")
    /\ Len(log_push) = 1
    /\ Len(stack) = 2
    /\ LastKind = "ModuleEnd"
    /\ NeedsValue(Len(text) - 1)

RECURSIVE PrevKind(_)
\* The kind of the nearest line before line i that is not blank; "None" if line i
\* is the first such line of the file.
PrevKind(i) ==
    IF i = 1 THEN "None"
    ELSE IF Kind(i - 1) = "Blank" THEN PrevKind(i - 1)
    ELSE Kind(i - 1)

\* The line last read is a variant line, and what precedes it has one of the kinds.
VariantAfter(kinds) ==
    /\ LastKind = "Variant"
    /\ PrevKind(Len(text)) \in kinds

\* C16 (as claimed): a variant line that does not directly follow a symbol
\* declaration or another variant of that symbol makes the compilation fail with
\* the unexpected-declaration error.
C16_StrayVariant ==
    VariantAfter({"None", "ModuleStart", "ModuleEnd", "Deprecated"})
        => Failed("expected definition")

\* C16 (amended): a variant line that is the first declaration of the file or of a
\* module body, or that follows a module-end, makes the compilation fail with the
\* unexpected-declaration error; a variant line that follows an annotation makes it
\* fail with the dangling-deprecation error.
C16_StrayVariantAmended ==
    /\ VariantAfter({"None", "ModuleStart", "ModuleEnd"}) => Failed("expected definition")
    /\ VariantAfter({"Deprecated"}) => Failed("dangling @deprecated:")

\* C16 witness: a variant line right after the `}` of a nested module that holds a
\* symbol.
C16_Witness ==
    /\ VariantAfter({"ModuleEnd"})
    /\ Failed("expected definition")
    /\ Len(text) = 4
    /\ Kind(2) = "Symbol"
    /\ Len(stack) = 1

-----------------------------------------------------------------------------
(* Identifiers and modifier sets *)

\* An identifier: a non-empty string of the letters A..Z and a..z.
IsIdent(s) ==
    /\ Len(s) > 0
    /\ \A i \in 1..Len(s) : s[i] \in (65..90) \cup (97..122)

\* The head token of a line without its comment and surrounding whitespace.
HeadOf(line) ==
    IF split_once(line, S(<<" ">>)) = None THEN line
    ELSE split_once(line, S(<<" ">>))[1][1]

\* Whether the head token of a line is that of an annotation.
IsAnnotation(head) ==
    /\ starts_with(head, DeprecatedPrefix)
    /\ ends_with(head, Ord[":"])

\* The name, or the modifier segments, that a line with the given head token
\* declares.
NamesOf(line, head) ==
    IF Len(line) = 0 \/ IsAnnotation(head) \/ line = S(<<"}">>) THEN {}
    ELSE IF head[1] = Ord["."]
    THEN {Split(SubSeq(head, 2, Len(head)), Ord["."])[k] :
            k \in 1..Len(Split(SubSeq(head, 2, Len(head)), Ord["."]))}
    ELSE {head}

\* The names that the raw line of a file declares.
DeclaredNames(raw) ==
    NamesOf(trim(HeadBefore(raw, S(<<"/", "/">>))),
            HeadOf(trim(HeadBefore(raw, S(<<"/", "/">>)))))

\* The declared names of each line of the model.
Declared == [raw \in Lines |-> DeclaredNames(raw)]

\* The modifier sets of the variants of a binding that is a Multi symbol.
ModifierSetsOf(binding) ==
    IF binding.def.kind = "Symbol" /\ binding.def.symbol.kind = "Multi"
    THEN {binding.def.symbol.variants[i][1] :
            i \in 1..Len(binding.def.symbol.variants)}
    ELSE {}

\* The bindings of a compiled tree, at every depth.
AllBindings == UNION {{module[i] : i \in 1..Len(module)} :
                        module \in AllModules(outcome.module)}

\* C17: every symbol name, module name and variant modifier of a compiled tree is
\* an identifier, and a line that declares a name or a modifier segment that is
\* empty or has another character makes the compilation fail at that line.
C17_IdentifiersEnforced ==
    /\ Compiled =>
          \A b \in AllBindings :
              /\ IsIdent(b[1])
              /\ \A ms \in ModifierSetsOf(b[2]) :
                    \A k \in 1..Len(iter(ms)) : IsIdent(iter(ms)[k])
    /\ \A i \in 1..Len(text) :
          (\E n \in Declared[text[i]] : ~IsIdent(n))
              => /\ i = Len(text)
                 /\ Failed("invalid identifier")
                 /\ outcome.line = i

\* C17 witness: after a variant with two modifiers was read, a module name with a
\* letter outside ASCII ends the compilation.
C17_Witness ==
    /\ Failed("invalid identifier")
    /\ LastKind = "Err"
    /\ text[Len(text)][1] = 233
    /\ \E i \in 1..Len(text) : Cardinality(Declared[text[i]]) = 2

\* The invariant of ModifierSet: no empty modifier, and no modifier name twice.
WellFormed(ms) ==
    /\ \A k \in 1..Len(iter(ms)) : Len(Modifier_name(iter(ms)[k])) > 0
    /\ \A k, l \in 1..Len(iter(ms)) :
          k # l => Modifier_name(iter(ms)[k]) # Modifier_name(iter(ms)[l])

\* C18 (as claimed): every ModifierSet that the compiler puts into the tree has no
\* empty modifier and no modifier name twice.
C18_ModifierSetsWellFormed ==
    Compiled => \A b \in AllBindings : \A ms \in ModifierSetsOf(b[2]) : WellFormed(ms)

-----------------------------------------------------------------------------
(* decode_value as a state machine: one call on a value with one escape. *)

MaxHex == 4
MaxTag == 2

\* The characters of the codes and tags of the escapes tried.
HexAlphabet == {Ord["0"], Ord["1"], Ord["8"], Ord["D"], Ord["f"], Ord["g"], Ord["+"]}
TagAlphabet == {Ord[Digit[i]] : i \in 1..10}

\* Codes of more than MaxHex characters: U+2060, the last scalar value, the
\* first value beyond, and values beyond 32 bits.
LongCodes == {S(<<"0", "2", "0", "6", "0">>), S(<<"1", "0", "F", "F", "F", "F">>),
              S(<<"1", "1", "0", "0", "0", "0">>),
              S(<<"F", "F", "F", "F", "F", "F", "F", "F">>),
              S(<<"1", "0", "0", "0", "0", "0", "0", "0", "0">>)}

\* Tags that are words.
WordTags == {S(<<"t", "e", "x", "t">>), S(<<"e", "m", "o", "j", "i">>),
             S(<<"T", "e", "x", "t">>), S(<<"e", "m", "o", "j">>)}

\* Tags of a `\c{...}` escape.
CombiningTags == {S(<<"n", "o", "t">>), S(<<"n", "o">>), S(<<"t", "e", "x", "t">>), <<>>}

Codes == SeqsUpTo(HexAlphabet, MaxHex) \cup LongCodes \cup {S(<<"2", "0", "6", "0">>)}
Tags == SeqsUpTo(TagAlphabet, MaxTag) \cup WordTags

\* What stands before and after the escape in the value.
Around == {<<>>, S(<<"x">>)}

\* The values decoded: one escape, closed by `}` or not, within plain text.
Escapes ==
    [kind : {"u"}, body : Codes, closed : BOOLEAN, pre : Around, post : Around]
        \cup [kind : {"vs"}, body : Tags, closed : BOOLEAN, pre : Around, post : Around]
        \cup [kind : {"c"}, body : CombiningTags, closed : BOOLEAN,
              pre : Around, post : Around]

\* The text of such a value.
Render(e) ==
    e.pre \o (IF e.kind = "u" THEN S(<<"\\", "u", "{">>)
               ELSE IF e.kind = "vs" THEN S(<<"\\", "v", "s", "{">>)
               ELSE S(<<"\\", "c", "{">>))
          \o e.body \o (IF e.closed THEN S(<<"}">>) ELSE <<>>) \o e.post

CallDecodeValue ==
    /\ call = Idle
    /\ UNCHANGED buildVars
    /\ \E e \in Escapes :
        /\ call' = [fn |-> "decode_value", escape |-> e, input |-> Render(e)]
        /\ ret' = decode_value(Render(e))

NextDecode == CallDecodeValue

SpecDecode == InitQuery /\ [][NextDecode]_vars

-----------------------------------------------------------------------------
(* Escapes *)

\* The value of a hexadecimal digit.
DigitValue(c) ==
    IF c \in 48..57 THEN c - 48 ELSE IF c \in 65..70 THEN c - 55 ELSE c - 87

\* A well-formed hexadecimal code: one or more of the digits 0-9, A-F, a-f.
WellFormedHex(code) ==
    /\ Len(code) > 0
    /\ \A i \in 1..Len(code) : code[i] \in (48..57) \cup (65..70) \cup (97..102)

RECURSIVE CodeOf(_)
\* The number a well-formed code denotes; 0x110000 for every number beyond the
\* last scalar value.
CodeOf(code) ==
    IF Len(code) = 0 THEN 0
    ELSE LET n == CodeOf(SubSeq(code, 1, Len(code) - 1)) * 16
                    + DigitValue(code[Len(code)])
         IN IF n > 1114111 THEN 1114112 ELSE n

\* A Unicode scalar value: a code point that is no surrogate.
IsScalar(n) == n \in 0..1114111 /\ n \notin 55296..57343

\* The call made is decode_value on a value with an escape of the kind.
Decoded(kind) == call # Idle /\ call.fn = "decode_value" /\ call.escape.kind = kind

\* C19 (as claimed): decoding `\u{H}` yields the scalar value whose hexadecimal
\* code is H; it is an error when H is not well-formed hexadecimal or denotes no
\* scalar value, and the unterminated-escape error when no `}` follows.
C19_UnicodeEscape ==
    Decoded("u") =>
        IF ~call.escape.closed THEN ret = Err("unclosed Unicode escape")
        ELSE IF WellFormedHex(call.escape.body) /\ IsScalar(CodeOf(call.escape.body))
        THEN ret = Ok(call.escape.pre \o <<CodeOf(call.escape.body)>> \o call.escape.post)
        ELSE ret = Err("invalid Unicode escape")

\* The decimal numeral of a number below 100.
Numeral(n) == IF n < 10 THEN <<48 + n>> ELSE <<48 + (n \div 10), 48 + (n % 10)>>

\* C20: decoding `\vs{N}` for N in 1..16 yields the variation selector
\* U+FE00 + (N - 1), `\vs{text}` yields U+FE0E and `\vs{emoji}` yields U+FE0F, as
\* `\vs{16}` does; every other tag is an error.
C20_VariationSelector ==
    (Decoded("vs") /\ call.escape.closed) =>
        IF \E n \in 1..16 : call.escape.body = Numeral(n)
        THEN \E n \in 1..16 :
                /\ call.escape.body = Numeral(n)
                /\ ret = Ok(call.escape.pre \o <<65024 + (n - 1)>> \o call.escape.post)
        ELSE IF call.escape.body = S(<<"t", "e", "x", "t">>)
        THEN ret = Ok(call.escape.pre \o <<65038>> \o call.escape.post)
        ELSE IF call.escape.body = S(<<"e", "m", "o", "j", "i">>)
        THEN ret = Ok(call.escape.pre \o <<65039>> \o call.escape.post)
        ELSE ret = Err("invalid VS escape")

\* C20 witness: `\vs{emoji}` decoded within plain text to what `\vs{16}` gives.
C20_Witness ==
    /\ Decoded("vs")
    /\ call.escape.closed
    /\ call.escape.body = S(<<"e", "m", "o", "j", "i">>)
    /\ call.escape.pre = S(<<"x">>)
    /\ ret = decode_value(S(<<"x", "\\", "v", "s", "{", "1", "6", "}">>) \o call.escape.post)
    /\ ret.ok

\* C21 (as claimed): decoding `\c{not}` succeeds and yields one fixed combining
\* character; `\c{TAG}` with any other tag is an error.
C21_CombiningEscape ==
    (Decoded("c") /\ call.escape.closed) =>
        IF call.escape.body = S(<<"n", "o", "t">>)
        THEN \E c \in 768..879 :
                ret = Ok(call.escape.pre \o <<c>> \o call.escape.post)
        ELSE ~ret.ok

-----------------------------------------------------------------------------
(* Aliases *)

\* What follows the first space of a line; None if it has no space.
TailOf(line) ==
    IF split_once(line, S(<<" ">>)) = None THEN None
    ELSE Some(split_once(line, S(<<" ">>))[1][2])

\* The line `name @= target[.modifier...][.*]` declares an alias.
IsAliasLine(raw) ==
    /\ TailOf(trim(raw)) # None
    /\ starts_with(TailOf(trim(raw))[1], S(<<"@", "=", " ">>))

\* The dotted path of an alias line, split at its dots.
AliasParts(raw) == Split(SubSeq(TailOf(trim(raw))[1], 4, Len(TailOf(trim(raw))[1])), Ord["."])

\* The alias a line declares: its name, the target symbol, the modifiers of the
\* path, and whether a trailing `.*` makes it deep.
AliasOf(raw) ==
    LET parts == AliasParts(raw)
        deep == parts[Len(parts)] = S(<<"*">>)
    IN [name |-> HeadOf(trim(raw)),
        target |-> parts[1],
        path |-> {parts[k] : k \in 2..(IF deep THEN Len(parts) - 1 ELSE Len(parts))},
        deep |-> deep]

\* The aliases of the lines of the model.
Aliases == [raw \in {l \in Lines : IsAliasLine(l)} |-> AliasOf(raw)]

\* The variants of a symbol; a Single is its value with the empty modifier set.
VariantsOf(symbol) ==
    IF symbol.kind = "Multi" THEN symbol.variants ELSE <<<<<<>>, symbol.value>>>>

RECURSIVE Join(_)
\* The modifiers of a list joined by dots.
Join(ms) ==
    IF Len(ms) = 0 THEN <<>>
    ELSE IF Len(ms) = 1 THEN ms[1]
    ELSE Join(SubSeq(ms, 1, Len(ms) - 1)) \o <<Ord["."]>> \o ms[Len(ms)]

\* The modifiers of a set that are not on the path, in their order.
Leftover(ms, path) == SelectSeq(iter(ms), LAMBDA m : m \notin path)

RECURSIVE Resolved(_, _, _)
\* The variants an alias with the path takes from the variants of its target: those
\* whose modifiers include the path (and, unless the alias is deep, no others), each
\* with the modifiers that are left.
Resolved(variants, path, deep) ==
    IF Len(variants) = 0 THEN <<>>
    ELSE LET v == variants[Len(variants)]
             front == Resolved(SubSeq(variants, 1, Len(variants) - 1), path, deep)
             left == Leftover(v[1], path)
         IN IF path \subseteq {iter(v[1])[k] : k \in 1..Len(iter(v[1]))}
               /\ (deep \/ Len(left) = 0)
            THEN Append(front, <<Join(left), v[2]>>)
            ELSE front

\* The symbol such variants make: a Single when the only one has no modifier.
IsSymbolOf(symbol, variants) ==
    IF Len(variants) = 1 /\ variants[1][1] = <<>>
    THEN symbol = Single(variants[1][2])
    ELSE symbol.kind = "Multi" /\ symbol.variants = variants

\* The whole text is one scope: it has no module line.
OneScope == \A i \in 1..Len(text) : Kind(i) \notin {"ModuleStart", "ModuleEnd"}

\* In a compiled one-scope text, the target of the alias of line i is a symbol of
\* the scope that has variants for the alias.
HasTarget(i) ==
    LET alias == Aliases[text[i]]
        target == Module_get(outcome.module, alias.target)
    IN /\ target # None
       /\ target[1].def.kind = "Symbol"
       /\ Len(Resolved(VariantsOf(target[1].def.symbol), alias.path, alias.deep)) > 0

\* The alias of line i is bound to the symbol that the variants it takes from its
\* target make.
AliasBound(i) ==
    LET alias == Aliases[text[i]]
        target == Module_get(outcome.module, alias.target)
        bound == Module_get(outcome.module, alias.name)
    IN /\ bound # None
       /\ bound[1].def.kind = "Symbol"
       /\ IsSymbolOf(bound[1].def.symbol,
                     Resolved(VariantsOf(target[1].def.symbol), alias.path, alias.deep))

\* The alias text of line i is the value of no symbol of the tree.
NotAValue(i) ==
    \A b \in AllBindings :
        b[2].def.kind = "Symbol" => b[2].def.symbol # Single(TailOf(trim(text[i]))[1])

\* C22 (as claimed): a simple alias resolves to the variant of its target that has
\* exactly the modifiers of its path: with `a` having the variants (empty: x),
\* (a: z), (b.a: w) and the line `r @= a.a` in the same scope, the scope binds `r`
\* to Single(z); and the alias declaration is no symbol whose value is the alias
\* text.
C22_SimpleAlias ==
    (Compiled /\ OneScope) =>
        \A i \in 1..Len(text) :
            (IsAliasLine(text[i]) /\ ~Aliases[text[i]].deep /\ HasTarget(i))
                => AliasBound(i) /\ NotAValue(i)

\* C23 (as claimed): a deep alias keeps the leftover modifiers: with `a` having the
\* variants (empty: x), (a: z), (b.a: w), the line `r @= a.a.*` binds `r` to
\* Multi([(empty, z), (b, w)]); a variant is included iff the modifiers of the path
\* are among its modifiers, and its new modifier set is its modifiers without those
\* of the path.
C23_DeepAlias ==
    (Compiled /\ OneScope) =>
        \A i \in 1..Len(text) :
            (IsAliasLine(text[i]) /\ Aliases[text[i]].deep /\ HasTarget(i))
                => AliasBound(i)


-----------------------------------------------------------------------------
(* Numeral systems: src/numeral_systems.rs.  A u64 is four 16-bit limbs, the
   least significant first; the operators below compute on the limbs what the
   machine computes on the 64-bit word. *)

\* The u64 of a small number (below 2^31).
U64(n) == <<n % Limb, n \div Limb, 0, 0>>

\* x < y on u64.
Less(x, y) == \E i \in 1..4 : x[i] < y[i] /\ \A j \in (i + 1)..4 : x[j] = y[j]

\* x + y on u64: the wrapped sum, and whether the sum left the range.
overflowing_add(x, y) ==
    LET t1 == x[1] + y[1]
        t2 == x[2] + y[2] + t1 \div Limb
        t3 == x[3] + y[3] + t2 \div Limb
        t4 == x[4] + y[4] + t3 \div Limb
    IN [val |-> <<t1 % Limb, t2 % Limb, t3 % Limb, t4 % Limb>>,
        overflow |-> t4 \div Limb > 0]

\* x - y on u64: the wrapped difference, and whether it left the range.
overflowing_sub(x, y) ==
    LET t1 == x[1] - y[1]
        b1 == IF t1 < 0 THEN 1 ELSE 0
        t2 == x[2] - y[2] - b1
        b2 == IF t2 < 0 THEN 1 ELSE 0
        t3 == x[3] - y[3] - b2
        b3 == IF t3 < 0 THEN 1 ELSE 0
        t4 == x[4] - y[4] - b3
        b4 == IF t4 < 0 THEN 1 ELSE 0
    IN [val |-> <<t1 + b1 * Limb, t2 + b2 * Limb, t3 + b3 * Limb, t4 + b4 * Limb>>,
        overflow |-> b4 = 1]

\* x * k on u64, for a factor k below 2^15: the wrapped product, and whether the
\* product left the range.
overflowing_mul(x, k) ==
    LET t1 == x[1] * k
        t2 == x[2] * k + t1 \div Limb
        t3 == x[3] * k + t2 \div Limb
        t4 == x[4] * k + t3 \div Limb
    IN [val |-> <<t1 % Limb, t2 % Limb, t3 % Limb, t4 % Limb>>,
        overflow |-> t4 \div Limb > 0]

\* x / k and x % k on u64, for a divisor k in 1..2^15.
DivRem(x, k) ==
    LET t4 == x[4]
        t3 == (t4 % k) * Limb + x[3]
        t2 == (t3 % k) * Limb + x[2]
        t1 == (t2 % k) * Limb + x[1]
    IN [quot |-> <<t1 \div k, t2 \div k, t3 \div k, t4 \div k>>, rem |-> t1 % k]

RECURSIVE ilog(_, _)
\* x.ilog(radix) for x > 0: the logarithm of x, rounded down.
ilog(x, radix) ==
    IF Less(x, U64(radix)) THEN 0 ELSE 1 + ilog(DivRem(x, radix).quot, radix)

RECURSIVE pow(_, _)
\* radix.pow(exp): the wrapped power, and whether the power left the range.
pow(radix, exp) ==
    IF exp = 0 THEN [val |-> U64(1), overflow |-> FALSE]
    ELSE LET p == pow(radix, exp - 1)
             m == overflowing_mul(p.val, radix)
         IN [val |-> m.val, overflow |-> p.overflow \/ m.overflow]

RECURSIVE Quotient(_, _, _)
\* n / place for place > 0, as far as it decides an index into `most` symbols:
\* the quotient when it is below `most`, and `most` otherwise.
Quotient(n, place, most) ==
    IF most = 0 \/ Less(n, place) THEN 0
    ELSE 1 + Quotient(overflowing_sub(n, place).val, place, most - 1)

\* What formatting ends with: the text written, or a panic.
Written(string) == [kind |-> "ok", text |-> string]

RECURSIVE bijective_digits(_, _, _, _, _)
\* The loop of bijective: one symbol for each of the `size` places.
bijective_digits(symbols, n, most_significant_digit_place, size, string) ==
    IF size = 0 THEN Written(string)
    ELSE LET radix == Len(symbols)
             most_significant_digit == Quotient(n, most_significant_digit_place, radix)
         IN IF most_significant_digit >= radix
            THEN Panic("index out of bounds")
            ELSE bijective_digits(
                     symbols,
                     overflowing_sub(
                         n,
                         overflowing_mul(most_significant_digit_place,
                                         most_significant_digit).val).val,
                     DivRem(most_significant_digit_place, radix).quot,
                     size - 1,
                     Append(string, symbols[most_significant_digit + 1]))

\* bijective(f, symbols, n), in a build with overflow checks (they panic) or
\* without (the value wraps).
bijective(symbols, n, overflow_checks) ==
    IF n = U64(0) THEN Written(S(<<"-">>))
    ELSE
    LET radix == Len(symbols)
        next == overflowing_add(n, U64(1))
        scaled == overflowing_mul(next.val, radix - 1)
    IN  IF next.overflow /\ overflow_checks
        THEN Panic("attempt to add with overflow")
        ELSE IF scaled.overflow /\ overflow_checks
        THEN Panic("attempt to multiply with overflow")
        ELSE IF scaled.val = U64(0)
        THEN Panic("argument of integer logarithm must be positive")
        ELSE
        LET size == ilog(scaled.val, radix)
            power == pow(radix, size)
            ones == DivRem(overflowing_sub(power.val, U64(1)).val, radix - 1).quot
            rest == overflowing_sub(n, ones)
        IN  IF power.overflow /\ overflow_checks
            THEN Panic("attempt to multiply with overflow")
            ELSE IF rest.overflow /\ overflow_checks
            THEN Panic("attempt to subtract with overflow")
            ELSE IF size = 0
            THEN IF overflow_checks
                 THEN Panic("attempt to subtract with overflow")
                 ELSE Written(<<>>)
            ELSE bijective_digits(symbols, rest.val, pow(radix, size - 1).val,
                                  size, <<>>)

RECURSIVE positional_digits(_, _, _, _, _)
\* The loop of positional: one symbol for each of the `size` places.
positional_digits(symbols, n, most_significant_digit_place, size, string) ==
    IF size = 0 THEN Written(string)
    ELSE LET radix == Len(symbols)
             most_significant_digit == Quotient(n, most_significant_digit_place, radix)
         IN IF most_significant_digit >= radix
            THEN Panic("index out of bounds")
            ELSE positional_digits(
                     symbols,
                     overflowing_sub(
                         n,
                         overflowing_mul(most_significant_digit_place,
                                         most_significant_digit).val).val,
                     DivRem(most_significant_digit_place, radix).quot,
                     size - 1,
                     Append(string, symbols[most_significant_digit + 1]))

\* positional(f, symbols, n), in a build with overflow checks or without.
positional(symbols, n, overflow_checks) ==
    IF n = U64(0) THEN Written(<<symbols[1]>>)
    ELSE
    LET radix == Len(symbols)
        size == ilog(n, radix) + 1
        place == pow(radix, size - 1)
    IN  IF place.overflow /\ overflow_checks
        THEN Panic("attempt to multiply with overflow")
        ELSE positional_digits(symbols, n, place.val, size, <<>>)

RECURSIVE div_rem(_, _, _)
\* u64 / and % by a u64: the quotient and the remainder of n by d (d not zero),
\* the quotient counted up from quot by taking d off n.
div_rem(n, d, quot) ==
    IF Less(n, d) THEN [quot |-> quot, rem |-> n]
    ELSE div_rem(overflowing_sub(n, d).val, d, overflowing_add(quot, U64(1)).val)

\* u64::div_ceil
div_ceil(n, k) ==
    IF DivRem(n, k).rem > 0 THEN overflowing_add(DivRem(n, k).quot, U64(1)).val
    ELSE DivRem(n, k).quot

\* `for _ in 0..reps { write!(f, "{}", symbol)? }`: what the loop writes, the
\* symbol reps times (for reps below 2^31; a longer text is not held).
Repeated(symbol, reps) ==
    [i \in 1..(Len(symbol) * (reps[2] * Limb + reps[1])) |->
        symbol[((i - 1) % Len(symbol)) + 1]]

RECURSIVE Decimal(_)
\* `write!(f, "{n}")`: the decimal digits of n.
Decimal(n) ==
    IF Less(n, U64(10)) THEN <<48 + n[1]>>
    ELSE Append(Decimal(DivRem(n, 10).quot), 48 + DivRem(n, 10).rem)

RECURSIVE additive_symbols(_, _, _, _)
\* The loop of additive from symbol i on, with n still to write and `written` the
\* text so far.  reps is n / weight, and n - weight * reps is the remainder of
\* that division.
additive_symbols(symbols, i, n, written) ==
    IF i > Len(symbols) THEN Written(written)
    ELSE IF symbols[i][2] = U64(0) \/ Less(n, symbols[i][2])
    THEN additive_symbols(symbols, i + 1, n, written)
    ELSE LET division == div_rem(n, symbols[i][2], U64(0))
         IN additive_symbols(symbols, i + 1, division.rem,
                             written \o Repeated(symbols[i][1], division.quot))

additive(symbols, n) ==
    IF n = U64(0)
    THEN IF Len(symbols) > 0 /\ symbols[Len(symbols)][2] = U64(0)
         THEN Written(symbols[Len(symbols)][1])
         ELSE Written(<<48>>)
    ELSE additive_symbols(symbols, 1, n, <<>>)

fixed(symbols, n) ==
    IF Less(n, U64(Len(symbols))) THEN Written(<<symbols[n[1] + 1]>>)
    ELSE Written(Decimal(n))

symbolic(symbols, n) ==
    IF n = U64(0) THEN Written(<<45>>)
    ELSE Written(Repeated(
            <<symbols[DivRem(overflowing_sub(n, U64(1)).val, Len(symbols)).rem + 1]>>,
            div_ceil(n, Len(symbols))))

\* chinese_number::from_u64_to_chinese_ten_thousand, a function of the crate
\* chinese_number, whose code is no part of this repository: the string it
\* returns is left uninterpreted, as the term of the call.
from_u64_to_chinese_ten_thousand(variant, case, value) ==
    [crate |-> "chinese_number", fn |-> "from_u64_to_chinese_ten_thousand",
     variant |-> variant, case |-> case, value |-> value]

\* The numeral systems, in the order of the arms of fmt: how each is written and
\* with which symbols.  A symbol is a code point, or for additive a string with
\* its weight.
NumeralSystem ==
    [name \in {"Arabic", "LowerRoman", "UpperRoman", "LowerGreek",
              "UpperGreek", "Hebrew", "LowerLatin", "UpperLatin",
              "HiraganaAiueo", "HiraganaIroha", "KatakanaAiueo",
              "KatakanaIroha", "KoreanJamo", "KoreanSyllable",
              "BengaliLetter", "CircledNumber", "DoubleCircledNumber",
              "LowerSimplifiedChinese", "UpperSimplifiedChinese",
              "LowerTraditionalChinese", "UpperTraditionalChinese",
              "EasternArabic", "EasternArabicPersian", "DevanagariNumber",
              "BengaliNumber", "Symbol"} |->
        CASE name = "Arabic" ->
            [kind |-> "positional",
             symbols |-> <<48, 49, 50, 51, 52, 53, 54, 55, 56, 57>>]
          [] name = "LowerRoman" ->
            [kind |-> "additive",
             symbols |-> <<<<<<109, 773>>, U64(1000000)>>,
                           <<<<100, 773>>, U64(500000)>>,
                           <<<<99, 773>>, U64(100000)>>,
                           <<<<108, 773>>, U64(50000)>>,
                           <<<<120, 773>>, U64(10000)>>,
                           <<<<118, 773>>, U64(5000)>>,
                           <<<<105, 773, 118, 773>>, U64(4000)>>,
                           <<<<109>>, U64(1000)>>,
                           <<<<99, 109>>, U64(900)>>,
                           <<<<100>>, U64(500)>>,
                           <<<<99, 100>>, U64(400)>>,
                           <<<<99>>, U64(100)>>,
                           <<<<120, 99>>, U64(90)>>,
                           <<<<108>>, U64(50)>>,
                           <<<<120, 108>>, U64(40)>>,
                           <<<<120>>, U64(10)>>,
                           <<<<105, 120>>, U64(9)>>,
                           <<<<118>>, U64(5)>>,
                           <<<<105, 118>>, U64(4)>>,
                           <<<<105>>, U64(1)>>,
                           <<<<110>>, U64(0)>>>>]
          [] name = "UpperRoman" ->
            [kind |-> "additive",
             symbols |-> <<<<<<77, 773>>, U64(1000000)>>,
                           <<<<68, 773>>, U64(500000)>>,
                           <<<<67, 773>>, U64(100000)>>,
                           <<<<76, 773>>, U64(50000)>>,
                           <<<<88, 773>>, U64(10000)>>,
                           <<<<86, 773>>, U64(5000)>>,
                           <<<<73, 773, 86, 773>>, U64(4000)>>,
                           <<<<77>>, U64(1000)>>,
                           <<<<67, 77>>, U64(900)>>,
                           <<<<68>>, U64(500)>>,
                           <<<<67, 68>>, U64(400)>>,
                           <<<<67>>, U64(100)>>,
                           <<<<88, 67>>, U64(90)>>,
                           <<<<76>>, U64(50)>>,
                           <<<<88, 76>>, U64(40)>>,
                           <<<<88>>, U64(10)>>,
                           <<<<73, 88>>, U64(9)>>,
                           <<<<86>>, U64(5)>>,
                           <<<<73, 86>>, U64(4)>>,
                           <<<<73>>, U64(1)>>,
                           <<<<78>>, U64(0)>>>>]
          [] name = "LowerGreek" ->
            [kind |-> "additive",
             symbols |-> <<<<<<885, 952>>, U64(9000)>>,
                           <<<<885, 951>>, U64(8000)>>,
                           <<<<885, 950>>, U64(7000)>>,
                           <<<<885, 987>>, U64(6000)>>,
                           <<<<885, 949>>, U64(5000)>>,
                           <<<<885, 948>>, U64(4000)>>,
                           <<<<885, 947>>, U64(3000)>>,
                           <<<<885, 946>>, U64(2000)>>,
                           <<<<885, 945>>, U64(1000)>>,
                           <<<<993>>, U64(900)>>,
                           <<<<969>>, U64(800)>>,
                           <<<<968>>, U64(700)>>,
                           <<<<967>>, U64(600)>>,
                           <<<<966>>, U64(500)>>,
                           <<<<965>>, U64(400)>>,
                           <<<<964>>, U64(300)>>,
                           <<<<963>>, U64(200)>>,
                           <<<<961>>, U64(100)>>,
                           <<<<991>>, U64(90)>>,
                           <<<<960>>, U64(80)>>,
                           <<<<959>>, U64(70)>>,
                           <<<<958>>, U64(60)>>,
                           <<<<957>>, U64(50)>>,
                           <<<<956>>, U64(40)>>,
                           <<<<955>>, U64(30)>>,
                           <<<<954>>, U64(20)>>,
                           <<<<953>>, U64(10)>>,
                           <<<<952>>, U64(9)>>,
                           <<<<951>>, U64(8)>>,
                           <<<<950>>, U64(7)>>,
                           <<<<987>>, U64(6)>>,
                           <<<<949>>, U64(5)>>,
                           <<<<948>>, U64(4)>>,
                           <<<<947>>, U64(3)>>,
                           <<<<946>>, U64(2)>>,
                           <<<<945>>, U64(1)>>,
                           <<<<65930>>, U64(0)>>>>]
          [] name = "UpperGreek" ->
            [kind |-> "additive",
             symbols |-> <<<<<<885, 920>>, U64(9000)>>,
                           <<<<885, 919>>, U64(8000)>>,
                           <<<<885, 918>>, U64(7000)>>,
                           <<<<885, 986>>, U64(6000)>>,
                           <<<<885, 917>>, U64(5000)>>,
                           <<<<885, 916>>, U64(4000)>>,
                           <<<<885, 915>>, U64(3000)>>,
                           <<<<885, 914>>, U64(2000)>>,
                           <<<<885, 913>>, U64(1000)>>,
                           <<<<992>>, U64(900)>>,
                           <<<<937>>, U64(800)>>,
                           <<<<936>>, U64(700)>>,
                           <<<<935>>, U64(600)>>,
                           <<<<934>>, U64(500)>>,
                           <<<<933>>, U64(400)>>,
                           <<<<932>>, U64(300)>>,
                           <<<<931>>, U64(200)>>,
                           <<<<929>>, U64(100)>>,
                           <<<<990>>, U64(90)>>,
                           <<<<928>>, U64(80)>>,
                           <<<<927>>, U64(70)>>,
                           <<<<926>>, U64(60)>>,
                           <<<<925>>, U64(50)>>,
                           <<<<924>>, U64(40)>>,
                           <<<<923>>, U64(30)>>,
                           <<<<922>>, U64(20)>>,
                           <<<<921>>, U64(10)>>,
                           <<<<920>>, U64(9)>>,
                           <<<<919>>, U64(8)>>,
                           <<<<918>>, U64(7)>>,
                           <<<<986>>, U64(6)>>,
                           <<<<917>>, U64(5)>>,
                           <<<<916>>, U64(4)>>,
                           <<<<915>>, U64(3)>>,
                           <<<<914>>, U64(2)>>,
                           <<<<913>>, U64(1)>>,
                           <<<<65930>>, U64(0)>>>>]
          [] name = "Hebrew" ->
            [kind |-> "additive",
             symbols |-> <<<<<<1514>>, U64(400)>>,
                           <<<<1513>>, U64(300)>>,
                           <<<<1512>>, U64(200)>>,
                           <<<<1511>>, U64(100)>>,
                           <<<<1510>>, U64(90)>>,
                           <<<<1508>>, U64(80)>>,
                           <<<<1506>>, U64(70)>>,
                           <<<<1505>>, U64(60)>>,
                           <<<<1504>>, U64(50)>>,
                           <<<<1502>>, U64(40)>>,
                           <<<<1500>>, U64(30)>>,
                           <<<<1499>>, U64(20)>>,
                           <<<<1497, 1496>>, U64(19)>>,
                           <<<<1497, 1495>>, U64(18)>>,
                           <<<<1497, 1494>>, U64(17)>>,
                           <<<<1496, 1494>>, U64(16)>>,
                           <<<<1496, 1493>>, U64(15)>>,
                           <<<<1497>>, U64(10)>>,
                           <<<<1496>>, U64(9)>>,
                           <<<<1495>>, U64(8)>>,
                           <<<<1494>>, U64(7)>>,
                           <<<<1493>>, U64(6)>>,
                           <<<<1492>>, U64(5)>>,
                           <<<<1491>>, U64(4)>>,
                           <<<<1490>>, U64(3)>>,
                           <<<<1489>>, U64(2)>>,
                           <<<<1488>>, U64(1)>>,
                           <<<<45>>, U64(0)>>>>]
          [] name = "LowerLatin" ->
            [kind |-> "bijective",
             symbols |-> <<97, 98, 99, 100, 101, 102, 103, 104, 105, 106, 107,
                          108, 109, 110, 111, 112, 113, 114, 115, 116, 117,
                          118, 119, 120, 121, 122>>]
          [] name = "UpperLatin" ->
            [kind |-> "bijective",
             symbols |-> <<65, 66, 67, 68, 69, 70, 71, 72, 73, 74, 75, 76, 77,
                          78, 79, 80, 81, 82, 83, 84, 85, 86, 87, 88, 89, 90>>]
          [] name = "HiraganaAiueo" ->
            [kind |-> "bijective",
             symbols |-> <<12354, 12356, 12358, 12360, 12362, 12363, 12365,
                          12367, 12369, 12371, 12373, 12375, 12377, 12379,
                          12381, 12383, 12385, 12388, 12390, 12392, 12394,
                          12395, 12396, 12397, 12398, 12399, 12402, 12405,
                          12408, 12411, 12414, 12415, 12416, 12417, 12418,
                          12420, 12422, 12424, 12425, 12426, 12427, 12428,
                          12429, 12431, 12434, 12435>>]
          [] name = "HiraganaIroha" ->
            [kind |-> "bijective",
             symbols |-> <<12356, 12429, 12399, 12395, 12411, 12408, 12392,
                          12385, 12426, 12396, 12427, 12434, 12431, 12363,
                          12424, 12383, 12428, 12381, 12388, 12397, 12394,
                          12425, 12416, 12358, 12432, 12398, 12362, 12367,
                          12420, 12414, 12369, 12405, 12371, 12360, 12390,
                          12354, 12373, 12365, 12422, 12417, 12415, 12375,
                          12433, 12402, 12418, 12379, 12377>>]
          [] name = "KatakanaAiueo" ->
            [kind |-> "bijective",
             symbols |-> <<12450, 12452, 12454, 12456, 12458, 12459, 12461,
                          12463, 12465, 12467, 12469, 12471, 12473, 12475,
                          12477, 12479, 12481, 12484, 12486, 12488, 12490,
                          12491, 12492, 12493, 12494, 12495, 12498, 12501,
                          12504, 12507, 12510, 12511, 12512, 12513, 12514,
                          12516, 12518, 12520, 12521, 12522, 12523, 12524,
                          12525, 12527, 12530, 12531>>]
          [] name = "KatakanaIroha" ->
            [kind |-> "bijective",
             symbols |-> <<12452, 12525, 12495, 12491, 12507, 12504, 12488,
                          12481, 12522, 12492, 12523, 12530, 12527, 12459,
                          12520, 12479, 12524, 12477, 12484, 12493, 12490,
                          12521, 12512, 12454, 12528, 12494, 12458, 12463,
                          12516, 12510, 12465, 12501, 12467, 12456, 12486,
                          12450, 12469, 12461, 12518, 12513, 12511, 12471,
                          12529, 12498, 12514, 12475, 12473>>]
          [] name = "KoreanJamo" ->
            [kind |-> "bijective",
             symbols |-> <<12593, 12596, 12599, 12601, 12609, 12610, 12613,
                          12615, 12616, 12618, 12619, 12620, 12621, 12622>>]
          [] name = "KoreanSyllable" ->
            [kind |-> "bijective",
             symbols |-> <<44032, 45208, 45796, 46972, 47560, 48148, 49324,
                          50500, 51088, 52264, 52852, 53440, 54028, 54616>>]
          [] name = "BengaliLetter" ->
            [kind |-> "bijective",
             symbols |-> <<2453, 2454, 2455, 2456, 2457, 2458, 2459, 2460,
                          2461, 2462, 2463, 2464, 2465, 2466, 2467, 2468,
                          2469, 2470, 2471, 2472, 2474, 2475, 2476, 2477,
                          2478, 2479, 2480, 2482, 2486, 2487, 2488, 2489>>]
          [] name = "CircledNumber" ->
            [kind |-> "fixed",
             symbols |-> <<9450, 9312, 9313, 9314, 9315, 9316, 9317, 9318,
                          9319, 9320, 9321, 9322, 9323, 9324, 9325, 9326,
                          9327, 9328, 9329, 9330, 9331, 12881, 12882, 12883,
                          12884, 12885, 12886, 12887, 12888, 12889, 12890,
                          12891, 12892, 12893, 12894, 12895, 12977, 12978,
                          12979, 12980, 12981, 12982, 12983, 12984, 12985,
                          12986, 12987, 12988, 12989, 12990, 12991>>]
          [] name = "DoubleCircledNumber" ->
            [kind |-> "fixed",
             symbols |-> <<48, 9461, 9462, 9463, 9464, 9465, 9466, 9467, 9468,
                          9469, 9470>>]
          [] name = "LowerSimplifiedChinese" ->
            [kind |-> "chinese", variant |-> "Simple", case |-> "Lower"]
          [] name = "UpperSimplifiedChinese" ->
            [kind |-> "chinese", variant |-> "Simple", case |-> "Upper"]
          [] name = "LowerTraditionalChinese" ->
            [kind |-> "chinese", variant |-> "Traditional", case |-> "Lower"]
          [] name = "UpperTraditionalChinese" ->
            [kind |-> "chinese", variant |-> "Traditional", case |-> "Upper"]
          [] name = "EasternArabic" ->
            [kind |-> "positional",
             symbols |-> <<1632, 1633, 1634, 1635, 1636, 1637, 1638, 1639,
                          1640, 1641>>]
          [] name = "EasternArabicPersian" ->
            [kind |-> "positional",
             symbols |-> <<1776, 1777, 1778, 1779, 1780, 1781, 1782, 1783,
                          1784, 1785>>]
          [] name = "DevanagariNumber" ->
            [kind |-> "positional",
             symbols |-> <<2406, 2407, 2408, 2409, 2410, 2411, 2412, 2413,
                          2414, 2415>>]
          [] name = "BengaliNumber" ->
            [kind |-> "positional",
             symbols |-> <<2534, 2535, 2536, 2537, 2538, 2539, 2540, 2541,
                          2542, 2543>>]
          [] name = "Symbol" ->
            [kind |-> "symbolic",
             symbols |-> <<42, 8224, 8225, 167, 182, 8214>>]]

\* NumeralSystem::apply(system, n).to_string(): Display::fmt of the formatted
\* number.
fmt(system, number, overflow_checks) ==
    CASE NumeralSystem[system].kind = "additive" ->
            additive(NumeralSystem[system].symbols, number)
      [] NumeralSystem[system].kind = "bijective" ->
            bijective(NumeralSystem[system].symbols, number, overflow_checks)
      [] NumeralSystem[system].kind = "fixed" ->
            fixed(NumeralSystem[system].symbols, number)
      [] NumeralSystem[system].kind = "positional" ->
            positional(NumeralSystem[system].symbols, number, overflow_checks)
      [] NumeralSystem[system].kind = "symbolic" ->
            symbolic(NumeralSystem[system].symbols, number)
      [] NumeralSystem[system].kind = "chinese" ->
            Written(from_u64_to_chinese_ten_thousand(
                NumeralSystem[system].variant, NumeralSystem[system].case, number))

\* The numbers formatted: every number up to MaxNumber, and numbers near the end of
\* the u64 range.
MaxNumber == 703

LargeNumbers ==
    {<<65535, 65535, 65535, 65535>>,
     <<15727, 55050, 28835, 2621>>,
     <<15728, 55050, 28835, 2621>>,
     <<0, 35304, 8964, 35527>>,
     <<0, 0, 0, 32768>>,
     <<40960, 30911, 54116, 8814>>,
     <<0, 0, 1, 0>>,
     <<22795, 17096, 45590, 1424>>}
\* In decimal: 18446744073709551615 (u64::MAX), 737869762948382063 (the last n with (n + 1) * 25 below 2^64), 737869762948382064 (the first n with (n + 1) * 25 at or above 2^64), 10000000000000000000 (10^19, the largest power of ten below 2^64), 9223372036854775808 (2^63), 2481152873203736576 (26^13), 4294967296 (2^32), 401016175515425035 (the first n with (n + 1) * 46 at or above 2^64).

Numbers == {U64(n) : n \in 0..MaxNumber} \cup LargeNumbers

\* The numbers a system is applied to.  additive and symbolic write a text as long
\* as the number is large, and are applied to the small numbers.
NumbersOf(system) ==
    CASE NumeralSystem[system].kind = "additive" ->
            {U64(n) : n \in 0..MaxNumber} \cup {U64(3999), U64(4000), U64(9999)}
      [] NumeralSystem[system].kind = "symbolic" -> {U64(n) : n \in 0..MaxNumber}
      [] OTHER -> Numbers

\* One call of apply(n).to_string() on a numeral system.
CallApply ==
    /\ call = Idle
    /\ UNCHANGED buildVars
    /\ \E system \in DOMAIN NumeralSystem, overflow_checks \in BOOLEAN :
       \E number \in NumbersOf(system) :
        /\ call' = [fn |-> "apply", system |-> system, number |-> number,
                    overflow_checks |-> overflow_checks]
        /\ ret' = fmt(system, number, overflow_checks)

NextNumeral == CallApply

SpecNumeral == InitQuery /\ [][NextNumeral]_vars

-----------------------------------------------------------------------------
(* Numerals *)

\* The call made is apply on one of the systems.
Applied(systems) == call # Idle /\ call.fn = "apply" /\ call.system \in systems

RECURSIVE BijectiveNumeral(_, _)
\* The bijective numeral of n over the letters, most significant digit first: the
\* n-th string when all strings over the letters are counted by length and then
\* alphabetically, from 1.
BijectiveNumeral(n, letters) ==
    IF n = U64(0) THEN <<>>
    ELSE LET d == DivRem(overflowing_sub(n, U64(1)).val, Len(letters))
         IN Append(BijectiveNumeral(d.quot, letters), letters[d.rem + 1])

\* The string in upper case.
ToUpper(string) ==
    [i \in 1..Len(string) |-> IF string[i] \in 97..122 THEN string[i] - 32 ELSE string[i]]

LowerLetters == [i \in 1..26 |-> 96 + i]

\* The string LowerLatin is to give for the number.
LatinOf(number) ==
    IF number = U64(0) THEN S(<<"-">>) ELSE BijectiveNumeral(number, LowerLetters)

\* C24 (as claimed): LowerLatin.apply(n) for n >= 1 is the bijective base-26 numeral
\* of n over a..z, most significant digit first (1..26 give a..z, 27 gives aa, 702
\* gives zz, 703 gives aaa; counting upwards enumerates the letter strings by length
\* and then alphabetically); UpperLatin gives the same string in upper case; 0
\* gives `-`.
C24_BijectiveLatin ==
    /\ LatinOf(U64(1)) = S(<<"a">>) /\ LatinOf(U64(26)) = S(<<"z">>)
    /\ LatinOf(U64(27)) = S(<<"a", "a">>) /\ LatinOf(U64(702)) = S(<<"z", "z">>)
    /\ LatinOf(U64(703)) = S(<<"a", "a", "a">>)
    /\ Applied({"LowerLatin"}) => ret = Written(LatinOf(call.number))
    /\ Applied({"UpperLatin"}) => ret = Written(ToUpper(LatinOf(call.number)))

\* C30 (as claimed): formatting a number never overflows or panics: for every
\* numeral system and every u64 n, the values computed by bijective and positional
\* stay within the u64 range and within the symbol table, so that the build with
\* overflow checks writes the numeral as the build without them does.
C30_NoOverflow ==
    Applied(DOMAIN NumeralSystem) =>
        /\ ret.kind = "ok"
        /\ ret = fmt(call.system, call.number, ~call.overflow_checks)


-----------------------------------------------------------------------------
(* Math styles: src/styling.rs *)

is_digit(c) == c \in 48..57

is_latin(c) == c \in (65..90) \cup (97..122)

is_upper_greek(c) == c \in (913..937) \cup {8711, 1012}

is_lower_greek(c) == c \in (945..969) \cup {8706, 1013, 977, 1008, 981, 1009, 982}

is_greek(c) == is_upper_greek(c) \/ is_lower_greek(c)

is_hebrew(c) == c \in 1488..1491

MathVariant ==
    {"Plain", "Fraktur", "SansSerif", "Monospace", "DoubleStruck", "Chancery", "Roundhand"}

\* MathStyle::select(c, variant, bold, italic): the first arm of the match that
\* fits.
select(c, variant, bold, italic) ==
    LET v == IF variant = None THEN "Plain" ELSE variant[1]
        SomeFalse == italic = <<FALSE>>
        SomeTrue == italic = <<TRUE>>
    IN  CASE v = "SansSerif" /\ ~bold /\ SomeFalse /\ is_latin(c) -> "SansSerif"
          [] v = "SansSerif" /\ ~bold /\ is_latin(c) -> "SansSerifItalic"
          [] v = "SansSerif" /\ bold /\ SomeFalse /\ is_latin(c) -> "SansSerifBold"
          [] v = "SansSerif" /\ bold /\ is_latin(c) -> "SansSerifBoldItalic"
          [] v = "SansSerif" /\ ~bold /\ is_digit(c) -> "SansSerif"
          [] v = "SansSerif" /\ bold /\ is_digit(c) -> "SansSerifBold"
          [] v = "SansSerif" /\ SomeFalse /\ is_greek(c) -> "SansSerifBold"
          [] v = "SansSerif" /\ SomeTrue /\ is_greek(c) -> "SansSerifBoldItalic"
          [] v = "SansSerif" /\ italic = None /\ is_upper_greek(c) -> "SansSerifBold"
          [] v = "SansSerif" /\ italic = None /\ is_lower_greek(c) -> "SansSerifBoldItalic"
          [] v = "Fraktur" /\ ~bold /\ is_latin(c) -> "Fraktur"
          [] v = "Fraktur" /\ bold /\ is_latin(c) -> "BoldFraktur"
          [] v = "Monospace" /\ (is_digit(c) \/ is_latin(c)) -> "Monospace"
          [] v = "DoubleStruck" /\ SomeTrue /\ c \in {68, 100, 101, 105, 106}
                -> "DoubleStruckItalic"
          [] v = "DoubleStruck"
                /\ (is_digit(c) \/ is_latin(c) \/ c \in {8721, 915, 928, 947, 960})
                -> "DoubleStruck"
          [] v = "Chancery" /\ ~bold /\ is_latin(c) -> "Chancery"
          [] v = "Chancery" /\ bold /\ is_latin(c) -> "BoldChancery"
          [] v = "Roundhand" /\ ~bold /\ is_latin(c) -> "Roundhand"
          [] v = "Roundhand" /\ bold /\ is_latin(c) -> "BoldRoundhand"
          [] ~bold /\ SomeTrue /\ (is_latin(c) \/ is_greek(c)) -> "Italic"
          [] ~bold /\ italic = None /\ (is_latin(c) \/ is_lower_greek(c)) -> "Italic"
          [] bold /\ SomeFalse /\ (is_latin(c) \/ is_greek(c)) -> "Bold"
          [] bold /\ SomeTrue /\ (is_latin(c) \/ is_greek(c)) -> "BoldItalic"
          [] bold /\ italic = None /\ (is_latin(c) \/ is_lower_greek(c)) -> "BoldItalic"
          [] bold /\ italic = None /\ is_upper_greek(c) -> "Bold"
          [] bold /\ (is_digit(c) \/ c \in {988, 989}) -> "Bold"
          [] (SomeTrue \/ italic = None) /\ c \in {305, 567, 295} -> "Italic"
          [] (SomeTrue \/ italic = None) /\ is_hebrew(c) -> "Hebrew"
          [] OTHER -> "Plain"

\* The characters styled: every character up to MaxChar, and the mathematical
\* signs that the match names (the partial differential, nabla and the sum).
MaxChar == 1500

Chars == (0..MaxChar) \cup {8706, 8711, 8721}

\* One call of MathStyle::select.
CallSelect ==
    /\ call = Idle
    /\ UNCHANGED buildVars
    /\ \E c \in Chars, variant \in {None} \cup {<<v>> : v \in MathVariant},
          bold \in BOOLEAN, italic \in {None, <<FALSE>>, <<TRUE>>} :
        /\ call' = [fn |-> "select", c |-> c, variant |-> variant, bold |-> bold,
                    italic |-> italic]
        /\ ret' = select(c, variant, bold, italic)

NextStyle == CallSelect

SpecStyle == InitQuery /\ [][NextStyle]_vars

-----------------------------------------------------------------------------
(* Auto-italic *)

\* The italic styles.
ItalicStyles ==
    {"Italic", "BoldItalic", "SansSerifItalic", "SansSerifBoldItalic", "DoubleStruckItalic"}

\* The basic Latin letters a-z and A-Z.
LatinLetter(c) == c \in (65..90) \cup (97..122)

\* The lowercase Greek letters: alpha to omega, the partial differential sign and
\* the glyph variants of epsilon, theta, kappa, phi, rho and pi.
LowercaseGreek(c) == c \in (945..969) \cup {8706} \cup {1013, 977, 1008, 981, 1009, 982}

\* C25 (as claimed): MathStyle::select with italic = None follows the TeX auto-italic
\* rules: for every variant and bold flag the selected style is an italic style
\* only when c is a Latin letter or a lowercase Greek letter; for every other
\* character it is no italic style.
C25_AutoItalic ==
    (call # Idle /\ call.fn = "select" /\ call.italic = None /\ ret \in ItalicStyles)
        => LatinLetter(call.c) \/ LowercaseGreek(call.c)


-----------------------------------------------------------------------------
(* Scopes *)

RECURSIVE CloseLine(_, _)
\* The module-end line that closes the module whose body begins at line l, depth
\* being the number of modules opened on the way; the line after the last one when
\* the text ends first.
CloseLine(l, depth) ==
    IF l > Len(text) THEN l
    ELSE IF Kind(l) = "ModuleStart" THEN CloseLine(l + 1, depth + 1)
    ELSE IF Kind(l) = "ModuleEnd"
    THEN IF depth = 0 THEN l ELSE CloseLine(l + 1, depth - 1)
    ELSE CloseLine(l + 1, depth)

RECURSIVE Scope(_, _)
\* What the lines from l up to line e declare in one scope, by bracket matching:
\* each symbol by its name, each module by its name and what the lines between its
\* `name {` line and the matching `}` declare.
Scope(l, e) ==
    IF l >= e THEN {}
    ELSE IF Kind(l) = "Symbol"
    THEN {<<Tokenized[text[l]].val.name, "Symbol", {}>>} \cup Scope(l + 1, e)
    ELSE IF Kind(l) = "ModuleStart"
    THEN {<<Tokenized[text[l]].val.name, "Module", Scope(l + 1, CloseLine(l + 1, 0))>>}
            \cup Scope(CloseLine(l + 1, 0) + 1, e)
    ELSE Scope(l + 1, e)

RECURSIVE Bound(_)
\* What a compiled module binds: each symbol by its name, each nested module by its
\* name and what it binds.
Bound(module) ==
    {<<module[i][1], module[i][2].def.kind,
       IF module[i][2].def.kind = "Module" THEN Bound(module[i][2].def.module) ELSE {}>> :
        i \in 1..Len(module)}

RECURSIVE Bindings(_)
\* The number of bindings of a compiled module and of the modules nested in it.
Bindings(module) ==
    IF Len(module) = 0 THEN 0
    ELSE (IF module[1][2].def.kind = "Module" THEN Bindings(module[1][2].def.module) ELSE 0)
            + 1 + Bindings(Tail(module))

\* The lines of the text read that declare a symbol or a module.
Declarations == {i \in 1..Len(text) : Kind(i) \in {"Symbol", "ModuleStart"}}

\* C26: nested modules scope by bracket matching: the declarations between a
\* `name {` line and its matching `}` become exactly the bindings of the nested
\* module `name`, to any depth, and the declarations after that `}` become bindings
\* of the enclosing scope, not of the nested module; no declaration is bound twice
\* or left out.
C26_BracketScopes ==
    Compiled =>
        /\ Bound(outcome.module) = Scope(1, Len(text) + 1)
        /\ Bindings(outcome.module) = Cardinality(Declarations)

\* C26 witness: a compiled text with a symbol between `m {` and `}` and a symbol
\* after the `}`: the first is bound in the module m, the second beside it.
C26_Witness ==
    /\ Compiled
    /\ Len(text) = 4
    /\ Kind(1) = "ModuleStart" /\ Kind(2) = "Symbol" /\ Kind(3) = "ModuleEnd"
    /\ Kind(4) = "Symbol"
    /\ Bound(outcome.module) =
          {<<Tokenized[text[1]].val.name, "Module",
             {<<Tokenized[text[2]].val.name, "Symbol", {}>>}>>,
           <<Tokenized[text[4]].val.name, "Symbol", {}>>}


-----------------------------------------------------------------------------
(* Variant runs *)

\* The variants a compiled symbol took from variant lines: all of its variants but
\* the default one that the value of its own line makes.
Absorbed(symbol, value) ==
    IF symbol.kind = "Single" THEN <<>>
    ELSE IF value # None THEN Tail(symbol.variants)
    ELSE symbol.variants

\* C27: variant absorption is greedy and ordered: a symbol absorbs all variant lines
\* that follow its declaration up to the next declaration that is no variant (blank
\* and comment-only lines do not end the run), each variant line belongs to the
\* nearest preceding symbol, and the absorbed variants appear in the symbol in
\* source order, none dropped or duplicated.
C27_GreedyVariants ==
    \A k \in 1..Len(log_push) :
        Absorbed(log_push[k][2].def.symbol, Tokenized[text[SymbolLine(k, 1)]].val.value)
            = VariantRun(SymbolLine(k, 1) + 1)

\* C27 witness: a compiled symbol that absorbed two variant lines with a comment
\* line between them.
C27_Witness ==
    /\ Compiled
    /\ Len(text) = 4
    /\ Kind(1) = "Symbol" /\ Kind(2) = "Variant" /\ Kind(3) = "Blank"
    /\ Kind(4) = "Variant"
    /\ text[2] # text[4]
    /\ Len(Absorbed(log_push[1][2].def.symbol, Tokenized[text[1]].val.value)) = 2


\* The module-start and module-end lines of the text read are balanced: every `}`
\* closes a module that is open, and every `name {` is closed by a `}`.
Balanced ==
    /\ \A i \in 1..Len(text) : Kind(i) = "ModuleEnd" => OpenLine(i - 1, 0) > 0
    /\ \A i \in 1..Len(text) : Kind(i) = "ModuleStart" => CloseLine(i + 1, 0) <= Len(text)

\* C28 (as claimed): compilation succeeds only for sources whose module-start and
\* module-end lines are balanced: a `}` with no open module and a `name {` that is
\* not closed before the end of the input are both rejected.
C28_BalancedOnly == Compiled => Balanced


-----------------------------------------------------------------------------
(* Lookup of compiled variants *)

\* The modifiers of a modifier set.
ModifiersOf(ms) == {Modifier_name(iter(ms)[k]) : k \in 1..Len(iter(ms))}

\* A compiled symbol as the library holds it; the deprecation of a variant plays no
\* part in the choice of the variant.
InLibrary(symbol) ==
    IF symbol.kind = "Single" THEN Single(symbol.value)
    ELSE Multi([i \in 1..Len(symbol.variants) |->
                    <<symbol.variants[i][1], symbol.variants[i][2], None>>])

\* The modifier sets looked up: those of the query API that carry no optional
\* marker.
Lookups ==
    {ModifierSetOf(q) : q \in {ts \in TokenLists :
                                            \A i \in 1..Len(ts) : ~ts[i].optional}}

\* The variants have pairwise different modifier sets.
Different(variants) ==
    \A i, j \in 1..Len(variants) :
        i # j => ModifiersOf(variants[i][1]) # ModifiersOf(variants[j][1])

\* Symbol::get of the modifier set on the compiled symbol gives the value.
Gets(symbol, ms, value) ==
    LET got == Symbol_get(InLibrary(symbol), ms)
    IN got # None /\ got[1][1] = value

\* C29: every declared variant is retrievable by its own modifier set: for every
\* compiled symbol whose variants have pairwise different modifier sets and every
\* variant (m, v) of it, Symbol::get(m) returns v, and Symbol::get of a modifier
\* set equal to no variant's set returns None.
C29_VariantsRetrievable ==
    Compiled =>
        \A b \in AllBindings :
            (b[2].def.kind = "Symbol" /\ Different(VariantsOf(b[2].def.symbol))) =>
                LET symbol == b[2].def.symbol
                    variants == VariantsOf(symbol)
                IN /\ \A i \in 1..Len(variants) :
                          Gets(symbol, variants[i][1], variants[i][2])
                   /\ \A ms \in Lookups :
                          (\A i \in 1..Len(variants) :
                               ModifiersOf(ms) # ModifiersOf(variants[i][1]))
                              => Symbol_get(InLibrary(symbol), ms) = None

\* C29 witness: a compiled symbol with three variants of different modifier sets,
\* one of them with two modifiers, and a lookup that equals none of them.
C29_Witness ==
    /\ Compiled
    /\ \E b \in AllBindings :
          /\ b[2].def.kind = "Symbol"
          /\ b[2].def.symbol.kind = "Multi"
          /\ Len(b[2].def.symbol.variants) = 3
          /\ Different(b[2].def.symbol.variants)
          /\ \E i \in 1..3 : Cardinality(ModifiersOf(b[2].def.symbol.variants[i][1])) = 2
          /\ \E ms \in Lookups :
                \A i \in 1..3 : ModifiersOf(ms) # ModifiersOf(b[2].def.symbol.variants[i][1])

====
